---- MODULE Spec2Model ----
(***************************************************************************)
(* A model of the single-pass compiler in src/compiler.c: the lexer, the   *)
(* newline filter, the Pratt parser and the bytecode emitter.              *)
(*                                                                         *)
(* The source text is a sequence of one-character strings.  Offsets into   *)
(* the source are 0-based as in the C code; the character at offset i is   *)
(* src[i + 1].  The recursive-descent parser is a state machine whose      *)
(* control stack holds one frame per active C call; an action runs one C   *)
(* function from a call-return point to its next recursive call.           *)
(***************************************************************************)
EXTENDS Integers, Sequences, FiniteSets, TLC

VARIABLES
  source,     \* the zero-terminated source buffer handed to compile
  parser,     \* the Parser struct (plus the history of tokens it produced)
  vm,         \* the VM's symbol tables: globalSymbols and methods
  compilers,  \* the live Compiler structs, innermost last
  heap,       \* the objects allocated so far: functions and strings
  pinned,     \* the objects pinned as GC roots
  stderr,     \* the diagnostics written by error()
  stack,      \* the control stack of the parser: one frame per active call
  result,     \* what the calls of compile returned, in order
  runsLeft,   \* how many more times the driver calls compile
  log         \* history: what the compiler registered, patched and finished

vars == <<source, parser, vm, compilers, heap, pinned, stderr, stack, result, runsLeft, log>>

----------------------------------------------------------------------------
(* Characters *)

\* The '\0' that ends the source buffer.
NUL == "NUL"

Lower == {"a","b","c","d","e","f","g","h","i","j","k","l","m","n","o","p","q","r","s","t","u","v","w","x","y","z"}

Upper == {"A","B","C","D","E","F","G","H","I","J","K","L","M","N","O","P","Q","R","S","T","U","V","W","X","Y","Z"}

\* The element of a one-element set.  Once({ e : x \in {v} }) is e with x
\* standing for the value of v: v is worked out one time however often e
\* reads x.
Once(S) == CHOOSE e \in S : TRUE

isName(c) == c \in Lower \cup Upper \cup {"_"}

isDigit(c) == c \in {"0","1","2","3","4","5","6","7","8","9"}

----------------------------------------------------------------------------
(* Lexing *)

peekChar(src, P) == Once({ IF p.currentChar < Len(src) THEN src[p.currentChar + 1] ELSE NUL : p \in {P} })

peekNextChar(src, P) == Once({
  IF peekChar(src, p) = NUL THEN NUL
  ELSE IF p.currentChar + 1 < Len(src) THEN src[p.currentChar + 2] ELSE NUL
  : p \in {P} })

\* nextChar's effect on the parser; the character it returns is peekChar before.
nextChar(P) == Once({ [p EXCEPT !.currentChar = p.currentChar + 1] : p \in {P} })

\* parser.lexed is history: every token readRawToken produced, in order.
makeToken(P, type) == Once({
  LET tok == [type |-> type, start |-> p.tokenStart, end |-> p.currentChar, line |-> p.currentLine]
  IN  [p EXCEPT !.current = tok, !.lexed = Append(p.lexed, tok)]
  : p \in {P} })

RECURSIVE skipLineComment(_, _)
skipLineComment(src, P) == Once({
  IF peekChar(src, p) # "\n" /\ peekChar(src, p) # NUL
  THEN skipLineComment(src, nextChar(p))
  ELSE p
  : p \in {P} })

RECURSIVE blockCommentLoop(_, _, _)
blockCommentLoop(src, P, nesting) == Once({
  IF nesting > 0
  THEN IF peekChar(src, p) = NUL THEN p
       ELSE IF peekChar(src, p) = "/" /\ peekNextChar(src, p) = "*"
            THEN blockCommentLoop(src, nextChar(nextChar(p)), nesting + 1)
       ELSE IF peekChar(src, p) = "*" /\ peekNextChar(src, p) = "/"
            THEN blockCommentLoop(src, nextChar(nextChar(p)), nesting - 1)
       ELSE blockCommentLoop(src, nextChar(p), nesting)
  ELSE p
  : p \in {P} })

skipBlockComment(src, p) == blockCommentLoop(src, nextChar(p), 1)

RECURSIVE skipWhitespace(_, _)
skipWhitespace(src, P) == Once({
  IF peekChar(src, p) = " " THEN skipWhitespace(src, nextChar(p)) ELSE p
  : p \in {P} })

\* The text of the token being lexed, source[tokenStart .. currentChar).
Lexeme(src, from, to) == SubSeq(src, from + 1, to)

isKeyword(src, P, keyword) == Once({ Lexeme(src, p.tokenStart, p.currentChar) = keyword : p \in {P} })

RECURSIVE skipDigits(_, _)
skipDigits(src, P) == Once({
  IF isDigit(peekChar(src, p)) THEN skipDigits(src, nextChar(p)) ELSE p
  : p \in {P} })

readNumber(src, p) ==
  LET p1 == skipDigits(src, p)
      p2 == IF peekChar(src, p1) = "." /\ isDigit(peekNextChar(src, p1))
            THEN skipDigits(src, nextChar(p1))
            ELSE p1
  IN  makeToken(p2, "TOKEN_NUMBER")

RECURSIVE skipNameChars(_, _)
skipNameChars(src, P) == Once({
  IF isName(peekChar(src, p)) \/ isDigit(peekChar(src, p))
  THEN skipNameChars(src, nextChar(p))
  ELSE p
  : p \in {P} })

Keywords ==
  <<  <<"TOKEN_CLASS",  <<"c","l","a","s","s">> >>,
      <<"TOKEN_ELSE",   <<"e","l","s","e">> >>,
      <<"TOKEN_FALSE",  <<"f","a","l","s","e">> >>,
      <<"TOKEN_FN",     <<"f","n">> >>,
      <<"TOKEN_IF",     <<"i","f">> >>,
      <<"TOKEN_IS",     <<"i","s">> >>,
      <<"TOKEN_NULL",   <<"n","u","l","l">> >>,
      <<"TOKEN_STATIC", <<"s","t","a","t","i","c">> >>,
      <<"TOKEN_THIS",   <<"t","h","i","s">> >>,
      <<"TOKEN_TRUE",   <<"t","r","u","e">> >>,
      <<"TOKEN_VAR",    <<"v","a","r">> >>  >>

readName(src, p) ==
  LET p1 == skipNameChars(src, p)
      hit == {i \in 1..Len(Keywords) : isKeyword(src, p1, Keywords[i][2])}
      type == IF hit = {} THEN "TOKEN_NAME" ELSE Keywords[CHOOSE i \in hit : TRUE][1]
  IN  makeToken(p1, type)

\* while (nextChar(parser) != '"'); there is no check for the end of the source,
\* and reading past it is undefined.  parser.ub records that the scan ran off
\* the end; the specifications start from sources that close every string.
RECURSIVE stringLoop(_, _)
stringLoop(src, P) == Once({
  IF peekChar(src, p) = NUL THEN [p EXCEPT !.ub = TRUE]
  ELSE IF peekChar(src, p) = "\"" THEN nextChar(p)
  ELSE stringLoop(src, nextChar(p))
  : p \in {P} })

readString(src, p) == makeToken(stringLoop(src, p), "TOKEN_STRING")

\* The tokens readRawToken makes from one character without looking further.
SingleCharToken ==
  [c \in {"(", ")", "[", "]", "{", "}", ":", ".", ",", "*", "%", "+", "|", "&"} |->
     CASE c = "(" -> "TOKEN_LEFT_PAREN"
       [] c = ")" -> "TOKEN_RIGHT_PAREN"
       [] c = "[" -> "TOKEN_LEFT_BRACKET"
       [] c = "]" -> "TOKEN_RIGHT_BRACKET"
       [] c = "{" -> "TOKEN_LEFT_BRACE"
       [] c = "}" -> "TOKEN_RIGHT_BRACE"
       [] c = ":" -> "TOKEN_COLON"
       [] c = "." -> "TOKEN_DOT"
       [] c = "," -> "TOKEN_COMMA"
       [] c = "*" -> "TOKEN_STAR"
       [] c = "%" -> "TOKEN_PERCENT"
       [] c = "+" -> "TOKEN_PLUS"
       [] c = "|" -> "TOKEN_PIPE"
       [] c = "&" -> "TOKEN_AMP"]

\* The operators that take a following '=': '=', '<', '>', '!'.
EqPairToken ==
  [c \in {"=", "<", ">", "!"} |->
     CASE c = "=" -> <<"TOKEN_EQEQ", "TOKEN_EQ">>
       [] c = "<" -> <<"TOKEN_LTEQ", "TOKEN_LT">>
       [] c = ">" -> <<"TOKEN_GTEQ", "TOKEN_GT">>
       [] c = "!" -> <<"TOKEN_BANGEQ", "TOKEN_BANG">>]

RECURSIVE readRawToken(_, _)
readRawToken(src, P) == Once({ (
  IF peekChar(src, p) = NUL
  THEN makeToken([p EXCEPT !.tokenStart = p.currentChar], "TOKEN_EOF")
  ELSE
    LET c  == peekChar(src, p)
        p1 == nextChar([p EXCEPT !.tokenStart = p.currentChar])
    IN  CASE c \in DOMAIN SingleCharToken -> makeToken(p1, SingleCharToken[c])
          [] c = "/" ->
               IF peekChar(src, p1) = "/" THEN readRawToken(src, skipLineComment(src, p1))
               ELSE IF peekChar(src, p1) = "*" THEN readRawToken(src, skipBlockComment(src, p1))
               ELSE makeToken(p1, "TOKEN_SLASH")
          [] c = "-" ->
               IF isDigit(peekChar(src, p1)) THEN readNumber(src, p1)
               ELSE makeToken(p1, "TOKEN_MINUS")
          [] c \in DOMAIN EqPairToken ->
               IF peekChar(src, p1) = "=" THEN makeToken(nextChar(p1), EqPairToken[c][1])
               ELSE makeToken(p1, EqPairToken[c][2])
          [] c = "\n" -> makeToken([p1 EXCEPT !.currentLine = p1.currentLine + 1], "TOKEN_LINE")
          [] c = " " -> readRawToken(src, skipWhitespace(src, p1))
          [] c = "\"" -> readString(src, p1)
          [] OTHER ->
               IF isName(c) THEN readName(src, p1)
               ELSE IF isDigit(c) THEN readNumber(src, p1)
               ELSE makeToken(p1, "TOKEN_ERROR")
  ) : p \in {P} })

\* The tokens after which nextToken discards newlines.
CannotEndExpression ==
  { "TOKEN_LEFT_PAREN", "TOKEN_LEFT_BRACKET", "TOKEN_LEFT_BRACE", "TOKEN_DOT",
    "TOKEN_COMMA", "TOKEN_STAR", "TOKEN_SLASH", "TOKEN_PERCENT", "TOKEN_PLUS",
    "TOKEN_MINUS", "TOKEN_PIPE", "TOKEN_AMP", "TOKEN_BANG", "TOKEN_EQ",
    "TOKEN_LT", "TOKEN_GT", "TOKEN_LTEQ", "TOKEN_GTEQ", "TOKEN_EQEQ",
    "TOKEN_BANGEQ", "TOKEN_CLASS", "TOKEN_ELSE", "TOKEN_IF", "TOKEN_IS",
    "TOKEN_STATIC", "TOKEN_VAR" }

\* The for (;;) loop of nextToken without "parser->skipNewlines = 1" where a
\* LINE is emitted.
RECURSIVE nextTokenLoopUncollapsed(_, _)
nextTokenLoopUncollapsed(src, p) ==
  LET Filter(Q) == Once({
        IF q.current.type = "TOKEN_LINE"
        THEN IF q.skipNewlines = 0 THEN q
             ELSE nextTokenLoopUncollapsed(src, q)
        ELSE IF q.current.type \in CannotEndExpression THEN [q EXCEPT !.skipNewlines = 1]
        ELSE [q EXCEPT !.skipNewlines = 0]
        : q \in {Q} })
  IN  Filter(readRawToken(src, p))

\* The for (;;) loop of nextToken.
RECURSIVE nextTokenLoop(_, _)
nextTokenLoop(src, p) ==
  LET Filter(Q) == Once({
        IF q.current.type = "TOKEN_LINE"
        THEN IF q.skipNewlines = 0 THEN [q EXCEPT !.skipNewlines = 1]
             ELSE nextTokenLoop(src, q)
        ELSE IF q.current.type \in CannotEndExpression THEN [q EXCEPT !.skipNewlines = 1]
        ELSE [q EXCEPT !.skipNewlines = 0]
        : q \in {Q} })
  IN  Filter(readRawToken(src, p))

\* parser.delivered is history: every token nextToken handed to the parser.
nextToken(src, P) == Once({
  LET Deliver(Q) == Once({ [q EXCEPT !.delivered = Append(q.delivered, q.current)] : q \in {Q} })
  IN  Deliver(nextTokenLoop(src, [p EXCEPT !.previous = p.current]))
  : p \in {P} })

\* The Parser that compile sets up before it reads the first token.
\* previous is uninitialised there; nextToken overwrites it before any read.
NewParser ==
  [ tokenStart |-> 0, currentChar |-> 0, currentLine |-> 1,
    current  |-> [type |-> "TOKEN_EOF", start |-> 0, end |-> 0, line |-> 0],
    previous |-> [type |-> "TOKEN_EOF", start |-> 0, end |-> 0, line |-> 0],
    skipNewlines |-> 1, hasError |-> 0,
    ub |-> FALSE, lexed |-> <<>>, delivered |-> <<>> ]

\* Lexes src to its end; used to tell whether a source closes all its strings.
RECURSIVE LexAll(_, _)
LexAll(src, p) ==
  LET Rest(Q) == Once({ IF q.current.type = "TOKEN_EOF" THEN q ELSE LexAll(src, q) : q \in {Q} })
  IN  Rest(nextToken(src, p))

StringsClosed(src) == ~LexAll(src, NewParser).ub

----------------------------------------------------------------------------
(* The machine state the compiler's helpers work on.  A helper takes the   *)
(* state as a record m and gives back the changed record; m.ret carries    *)
(* the C return value of the helper that ran last.                         *)

Machine ==
  [ parser |-> parser, vm |-> vm, compilers |-> compilers, heap |-> heap,
    pinned |-> pinned, stderr |-> stderr, log |-> log, ret |-> 0 ]

Return(m, value) == [m EXCEPT !.ret = value]

\* error() with the assignment to hasError left out.
errorUnflagged(M, message) == Once({
  [m EXCEPT !.stderr = Append(@, [ line    |-> m.parser.previous.line,
                                   lexeme  |-> Lexeme(source, m.parser.previous.start, m.parser.previous.end),
                                   message |-> message ])]
  : m \in {M} })

\* error(): sets hasError and writes "[Line n] Error on '<lexeme>': <message>".
error(M, message) == Once({
  [m EXCEPT !.parser.hasError = 1,
            !.stderr = Append(@, [ line    |-> m.parser.previous.line,
                                   lexeme  |-> Lexeme(source, m.parser.previous.start, m.parser.previous.end),
                                   message |-> message ])]
  : m \in {M} })

----------------------------------------------------------------------------
(* Services of the VM (vm.c, not part of src/): symbol tables, objects and *)
(* GC pins, as the specification's section 6 describes them.               *)

\* The index of name in the table, or -1.
findSymbol(table, name) ==
  IF \E i \in 1..Len(table) : table[i] = name
  THEN (CHOOSE i \in 1..Len(table) : table[i] = name) - 1
  ELSE -1

\* The table with name added and its new index, or -1 if it was present.
addSymbol(table, name) ==
  IF findSymbol(table, name) # -1
  THEN [table |-> table, symbol |-> -1]
  ELSE [table |-> Append(table, name), symbol |-> Len(table)]

\* The existing or the new index of name.
ensureSymbol(table, name) ==
  IF findSymbol(table, name) # -1
  THEN [table |-> table, symbol |-> findSymbol(table, name)]
  ELSE addSymbol(table, name)

\* The objects the collector finds from the roots: the roots and every
\* object held in a constant slot of a function already found.
RECURSIVE Reachable(_, _)
Reachable(h, roots) ==
  LET Grow(next) == IF next = roots THEN roots ELSE Reachable(h, next)
  IN  Grow(roots \cup UNION { { h[o].constants[i].ref :
                                 i \in { j \in 1..Len(h[o].constants) : h[o].constants[j].t = "obj" } } :
                               o \in roots })

\* An allocation is a point where the collector may run.  log.allocs is
\* history: for each allocation the new object and the objects this
\* compilation allocated before it that no root reaches at that moment.
allocate(M, obj) == Once({
  Return([m EXCEPT !.heap = Append(@, obj),
                   !.log.allocs = Append(@, [ obj      |-> Len(m.heap) + 1,
                                              unrooted |-> ((m.log.start.heap + 1)..Len(m.heap))
                                                           \ Reachable(m.heap, m.pinned) ])],
         Len(m.heap) + 1)
  : m \in {M} })

\* A fresh function object with empty code and constants; m.ret is its reference.
newFunction(m) ==
  allocate(m, [type |-> "fn", bytecode |-> <<>>, constants |-> <<>>, text |-> <<>>])

\* A fresh string object holding the characters; m.ret is its reference.
newString(m, chars) ==
  allocate(m, [type |-> "string", bytecode |-> <<>>, constants |-> <<>>, text |-> chars])

pinObj(m, obj) == [m EXCEPT !.pinned = @ \cup {obj}]

unpinObj(m, obj) == [m EXCEPT !.pinned = @ \ {obj}]

NUM_VAL(number) == [t |-> "num", num |-> number, ref |-> 0]

OBJ_VAL(obj) == [t |-> "obj", num |-> <<>>, ref |-> obj]

\* One element of a bytecode buffer.  An opcode is kept by name; CALL_0 + n is
\* the opcode "CODE_CALL" with n; an operand is a byte.
Op(name) == [op |-> name, n |-> 0]

CODE_CALL(numArgs) == [op |-> "CODE_CALL", n |-> numArgs]

\* The conversion of an int to one element of the byte buffer.
Byte(v) == [op |-> "", n |-> v % 256]

----------------------------------------------------------------------------
(* Parsing and code generation utilities *)

initCompiler(m, parent, isMethod) ==
  LET Push(M1) == Once({
        [m1 EXCEPT !.compilers = Append(@, [ parent |-> parent, fn |-> m1.ret,
                                             locals |-> <<>>, isMethod |-> isMethod ])]
        : m1 \in {M1} })
  IN  Push(newFunction(m))

\* compiler->numCodes: the buffer of the model holds exactly the bytes emitted.
numCodes(M, c) == Once({ Len(m.heap[m.compilers[c].fn].bytecode) : m \in {M} })

numConstants(M, c) == Once({ Len(m.heap[m.compilers[c].fn].constants) : m \in {M} })

peek(m) == m.parser.current.type

advance(m) == [m EXCEPT !.parser = nextToken(source, @)]

\* match(): matched is its return value, match its effect.
matched(m, expected) == peek(m) = expected

match(M, expected) == Once({ IF matched(m, expected) THEN advance(m) ELSE m : m \in {M} })

consume(m, expected, errorMessage) ==
  LET Check(M1) == Once({ IF m1.parser.previous.type # expected THEN error(m1, errorMessage) ELSE m1 : m1 \in {M1} })
  IN  Check(advance(m))

\* emit(): m.ret is the offset of the element written.
emit(M, c, code) == Once({
  Return([m EXCEPT !.heap[m.compilers[c].fn].bytecode = Append(@, code)], numCodes(m, c))
  : m \in {M} })

addConstant(M, c, constant) == Once({
  Return([m EXCEPT !.heap[m.compilers[c].fn].constants = Append(@, constant)],
         numConstants(m, c))
  : m \in {M} })

\* log.declared is history: how many times declareVariable ran; log.locals
\* is history: the function declared in, the name, the symbol returned and
\* whether the table was the compiler's locals.
declareVariable(m, c) ==
  LET Declare(M1) == Once({
        LET name  == Lexeme(source, m1.parser.previous.start, m1.parser.previous.end)
            local == m1.compilers[c].parent # 0
            added == addSymbol(IF local THEN m1.compilers[c].locals ELSE m1.vm.globalSymbols, name)
            entry == [ fn |-> m1.compilers[c].fn, name |-> name, symbol |-> added.symbol,
                       local |-> local, parameter |-> FALSE ]
            m2    == IF local THEN [m1 EXCEPT !.compilers[c].locals = added.table, !.log.declared = @ + 1,
                                              !.log.locals = Append(@, entry)]
                     ELSE [m1 EXCEPT !.vm.globalSymbols = added.table, !.log.declared = @ + 1,
                                     !.log.locals = Append(@, entry)]
        IN  Return(IF added.symbol = -1 THEN error(m2, "Variable is already defined.") ELSE m2,
                   added.symbol)
        : m1 \in {M1} })
  IN  Declare(consume(m, "TOKEN_NAME", "Expected variable name."))

\* History: the declaration declareVariable has just logged was a parameter's.
parameter(M) == Once({ [m EXCEPT !.log.locals[Len(m.log.locals)].parameter = TRUE] : m \in {M} })

\* No slot for the receiver.
addReceiverNone(m, k) == m

\* addSymbol(&locals, "(this)", 6) of function and method: the slot of the receiver.
addReceiver(m, k) ==
  [m EXCEPT !.compilers[k].locals = addSymbol(@, <<"(", "t", "h", "i", "s", ")">>).table]

\* log.defined is history: the function, the symbol and the offset of the
\* DUP of each local defined.
defineVariable(M, c, symbol) == Once({
  IF m.compilers[c].parent = 0
  THEN emit(emit(m, c, Op("CODE_STORE_GLOBAL")), c, Byte(symbol))
  ELSE emit([m EXCEPT !.log.defined = Append(@, [ fn |-> m.compilers[c].fn, symbol |-> symbol,
                                                  at |-> numCodes(m, c) ])],
            c, Op("CODE_DUP"))
  : m \in {M} })

\* The operands that follow an opcode in the buffer.
Operands(code) ==
  CASE code.op \in { "CODE_CONSTANT", "CODE_LOAD_LOCAL", "CODE_STORE_LOCAL", "CODE_LOAD_GLOBAL",
                     "CODE_STORE_GLOBAL", "CODE_CALL", "CODE_JUMP", "CODE_JUMP_IF" } -> 1
    [] code.op = "CODE_METHOD" -> 2
    [] OTHER -> 0

\* The change an instruction makes to the height of the operand stack.
StackEffect(code) ==
  CASE code.op \in { "CODE_CONSTANT", "CODE_NULL", "CODE_TRUE", "CODE_FALSE", "CODE_LOAD_LOCAL",
                     "CODE_LOAD_GLOBAL", "CODE_DUP", "CODE_CLASS", "CODE_METACLASS" } -> 1
    [] code.op \in { "CODE_POP", "CODE_JUMP_IF", "CODE_IS" } -> -1
    [] code.op = "CODE_CALL" -> 0 - code.n
    [] OTHER -> 0

\* The heights the operand stack can have before each instruction of a
\* function, over every path from its start: reach[at] for the instruction
\* at offset at.  Jumps go forward, so one pass in the order of the offsets
\* finds them all.
RECURSIVE StackHeights(_, _, _)
StackHeights(bytecode, at, reach) ==
  IF at >= Len(bytecode) THEN reach
  ELSE LET code   == bytecode[at + 1]
           next   == at + 1 + Operands(code)
           after  == { h + StackEffect(code) : h \in reach[at] }
           target == next + bytecode[at + 2].n
       IN  StackHeights(bytecode, next,
             CASE code.op = "CODE_JUMP"    -> [reach EXCEPT ![target] = @ \cup after]
               [] code.op = "CODE_JUMP_IF" -> [reach EXCEPT ![next] = @ \cup after, ![target] = @ \cup after]
               [] code.op = "CODE_END"     -> reach
               [] OTHER                    -> [reach EXCEPT ![next] = @ \cup after])

----------------------------------------------------------------------------
(* Grammar *)

PREC_NONE == 0

PREC_LOWEST == 1

PREC_ASSIGNMENT == 2

PREC_IS == 3

PREC_EQUALITY == 4

PREC_COMPARISON == 5

PREC_BITWISE == 6

PREC_TERM == 7

PREC_FACTOR == 8

PREC_UNARY == 9

PREC_CALL == 10

\* A NULL function pointer or NULL name of the rule table.
NULL == "NULL"

\* The token types.
TokenType ==
  { "TOKEN_LEFT_PAREN", "TOKEN_RIGHT_PAREN", "TOKEN_LEFT_BRACKET", "TOKEN_RIGHT_BRACKET",
    "TOKEN_LEFT_BRACE", "TOKEN_RIGHT_BRACE", "TOKEN_COLON", "TOKEN_DOT", "TOKEN_COMMA",
    "TOKEN_STAR", "TOKEN_SLASH", "TOKEN_PERCENT", "TOKEN_PLUS", "TOKEN_MINUS", "TOKEN_PIPE",
    "TOKEN_AMP", "TOKEN_BANG", "TOKEN_EQ", "TOKEN_LT", "TOKEN_GT", "TOKEN_LTEQ", "TOKEN_GTEQ",
    "TOKEN_EQEQ", "TOKEN_BANGEQ", "TOKEN_CLASS", "TOKEN_ELSE", "TOKEN_FALSE", "TOKEN_FN",
    "TOKEN_IF", "TOKEN_IS", "TOKEN_NULL", "TOKEN_STATIC", "TOKEN_THIS", "TOKEN_TRUE",
    "TOKEN_VAR", "TOKEN_NAME", "TOKEN_NUMBER", "TOKEN_STRING", "TOKEN_LINE", "TOKEN_ERROR",
    "TOKEN_EOF" }

UNUSED == [prefix |-> NULL, infix |-> NULL, method |-> NULL, precedence |-> PREC_NONE, name |-> <<>>]

PREFIX(fn) == [prefix |-> fn, infix |-> NULL, method |-> NULL, precedence |-> PREC_NONE, name |-> <<>>]

\* INFIX with no function in the rule.
INFIXWithoutFunction(prec, fn) ==
  [prefix |-> NULL, infix |-> NULL, method |-> NULL, precedence |-> prec, name |-> <<>>]

INFIX(prec, fn) == [prefix |-> NULL, infix |-> fn, method |-> NULL, precedence |-> prec, name |-> <<>>]

INFIX_OPERATOR(prec, name) ==
  [prefix |-> NULL, infix |-> "infixOp", method |-> "infixSignature", precedence |-> prec, name |-> name]

OPERATOR(prec, name) ==
  [prefix |-> "unaryOp", infix |-> "infixOp", method |-> "mixedSignature", precedence |-> prec, name |-> name]

PREFIX_OPERATOR(name) ==
  [prefix |-> "unaryOp", infix |-> NULL, method |-> "unarySignature", precedence |-> PREC_NONE, name |-> name]

rules(type) ==
  CASE type = "TOKEN_LEFT_PAREN" -> PREFIX("grouping")
    [] type = "TOKEN_DOT"     -> INFIX(PREC_CALL, "call")
    [] type = "TOKEN_STAR"    -> INFIX_OPERATOR(PREC_FACTOR, <<"*", " ">>)
    [] type = "TOKEN_SLASH"   -> INFIX_OPERATOR(PREC_FACTOR, <<"/", " ">>)
    [] type = "TOKEN_PERCENT" -> INFIX_OPERATOR(PREC_TERM, <<"%", " ">>)
    [] type = "TOKEN_PLUS"    -> INFIX_OPERATOR(PREC_TERM, <<"+", " ">>)
    [] type = "TOKEN_MINUS"   -> OPERATOR(PREC_TERM, <<"-", " ">>)
    [] type = "TOKEN_BANG"    -> PREFIX_OPERATOR(<<"!">>)
    [] type = "TOKEN_LT"      -> INFIX_OPERATOR(PREC_COMPARISON, <<"<", " ">>)
    [] type = "TOKEN_GT"      -> INFIX_OPERATOR(PREC_COMPARISON, <<">", " ">>)
    [] type = "TOKEN_LTEQ"    -> INFIX_OPERATOR(PREC_COMPARISON, <<"<", "=", " ">>)
    [] type = "TOKEN_GTEQ"    -> INFIX_OPERATOR(PREC_COMPARISON, <<">", "=", " ">>)
    [] type = "TOKEN_EQEQ"    -> INFIX_OPERATOR(PREC_EQUALITY, <<"=", "=", " ">>)
    [] type = "TOKEN_BANGEQ"  -> INFIX_OPERATOR(PREC_EQUALITY, <<"!", "=", " ">>)
    [] type = "TOKEN_FALSE"   -> PREFIX("boolean")
    [] type = "TOKEN_FN"      -> PREFIX("function")
    [] type = "TOKEN_IS"      -> INFIX(PREC_IS, "is")
    [] type = "TOKEN_NULL"    -> PREFIX("null")
    [] type = "TOKEN_THIS"    -> PREFIX("this_")
    [] type = "TOKEN_TRUE"    -> PREFIX("boolean")
    [] type = "TOKEN_NAME"    ->
         [prefix |-> "name", infix |-> NULL, method |-> "parameterList", precedence |-> PREC_NONE, name |-> <<>>]
    [] type = "TOKEN_NUMBER"  -> PREFIX("number")
    [] type = "TOKEN_STRING"  -> PREFIX("string")
    [] OTHER -> UNUSED

\* The lexeme of the token consumed last.
PreviousLexeme(M) == Once({ Lexeme(source, m.parser.previous.start, m.parser.previous.end) : m \in {M} })

\* The do ... while (match(TOKEN_COMMA)) of parameterList; hasName is name != NULL.
RECURSIVE parameterLoop(_, _, _, _)
parameterLoop(m, c, name, hasName) ==
  LET n1 == IF hasName THEN Append(name, " ") ELSE name
      While(M1) == Once({
        IF matched(m1, "TOKEN_COMMA")
        THEN parameterLoop(match(m1, "TOKEN_COMMA"), c, n1, hasName)
        ELSE Return(m1, n1)
        : m1 \in {M1} })
  IN  While(parameter(declareVariable(m, c)))

\* parameterList() with no space added to the name for a parameter.
parameterListUnmangled(M, c, name, hasName) == Once({
  IF matched(m, "TOKEN_LEFT_PAREN")
  THEN LET Close(m1) == Return(consume(m1, "TOKEN_RIGHT_PAREN", "Expect ')' after parameters."), name)
       IN  Close(parameterLoop(match(m, "TOKEN_LEFT_PAREN"), c, name, FALSE))
  ELSE Return(m, name)
  : m \in {M} })

\* m.ret is the name buffer on return.
parameterList(M, c, name, hasName) == Once({
  IF matched(m, "TOKEN_LEFT_PAREN")
  THEN LET Close(M1) == Once({ Return(consume(m1, "TOKEN_RIGHT_PAREN", "Expect ')' after parameters."), m1.ret) : m1 \in {M1} })
       IN  Close(parameterLoop(match(m, "TOKEN_LEFT_PAREN"), c, name, hasName))
  ELSE Return(m, name)
  : m \in {M} })

infixSignature(m, c, name) == Return(parameter(declareVariable(m, c)), Append(name, " "))

unarySignature(m, c, name) == Return(m, name)

mixedSignature(M, c, name) == Once({
  IF m.parser.current.type = "TOKEN_NAME"
  THEN Return(parameter(declareVariable(m, c)), Append(name, " "))
  ELSE Return(m, name)
  : m \in {M} })

\* The call through a SignatureFn pointer.
signature(fn, M, c, name) == Once({ (
  CASE fn = "parameterList"  -> parameterList(m, c, name, TRUE)
    [] fn = "infixSignature" -> infixSignature(m, c, name)
    [] fn = "unarySignature" -> unarySignature(m, c, name)
    [] fn = "mixedSignature" -> mixedSignature(m, c, name)
  ) : m \in {M} })

\* strtod: the offset after the longest prefix of the source at start that
\* reads as a decimal number (sign, digits, fraction, exponent).
RECURSIVE DigitsEnd(_, _)
DigitsEnd(src, at) ==
  IF at < Len(src) /\ isDigit(src[at + 1]) THEN DigitsEnd(src, at + 1) ELSE at

CharAt(src, at) == IF at < Len(src) THEN src[at + 1] ELSE NUL

strtodEnd(src, start) ==
  LET s0 == IF CharAt(src, start) \in {"-", "+"} THEN start + 1 ELSE start
      s1 == DigitsEnd(src, s0)
      s2 == IF CharAt(src, s1) = "." THEN DigitsEnd(src, s1 + 1) ELSE s1
      mantissa == (s1 > s0) \/ (s2 > s1 + 1)
      e0 == IF CharAt(src, s2) \in {"e", "E"}
            THEN (IF CharAt(src, s2 + 1) \in {"-", "+"} THEN s2 + 2 ELSE s2 + 1)
            ELSE s2
      e1 == DigitsEnd(src, e0)
  IN  IF ~mantissa THEN start
      ELSE IF e0 > s2 /\ e1 > e0 THEN e1 ELSE s2

\* The loop tail with the POP emitted after every newline, the closer or not.
bodyLoopTailPopFirst(M, c, closer, errorMessage) == Once({
  IF ~matched(m, "TOKEN_LINE")
  THEN Return(consume(m, closer, errorMessage), "break")
  ELSE LET Again(M1) == Once({
             IF matched(m1, closer)
             THEN Return(match(emit(m1, c, Op("CODE_POP")), closer), "break")
             ELSE Return(emit(m1, c, Op("CODE_POP")), "again")
             : m1 \in {M1} })
       IN  Again(match(m, "TOKEN_LINE"))
  : m \in {M} })

\* The loop tail that compile, statement's block, function and method share:
\* after a definition, a newline or the closer.  m.ret says whether the loop
\* goes round again.
bodyLoopTail(M, c, closer, errorMessage) == Once({
  IF ~matched(m, "TOKEN_LINE")
  THEN Return(consume(m, closer, errorMessage), "break")
  ELSE LET Again(M1) == Once({
             IF matched(m1, closer)
             THEN Return(match(m1, closer), "break")
             ELSE Return(emit(m1, c, Op("CODE_POP")), "again")
             : m1 \in {M1} })
       IN  Again(match(m, "TOKEN_LINE"))
  : m \in {M} })

----------------------------------------------------------------------------
(* The control stack.  A frame is one active C call: pc is the function    *)
(* and the place in it, c its compiler argument (an index into compilers), *)
(* k the Compiler it declared itself (fnCompiler, methodCompiler), and the *)
(* other fields its arguments and locals.                                  *)

Frame(pc, c) ==
  [ pc |-> pc, c |-> c, k |-> 0, allowAssignment |-> 0, precedence |-> PREC_NONE,
    x |-> 0, y |-> 0, z |-> 0, name |-> <<>>, numArgs |-> 0, type |-> "" ]

\* A call of parsePrecedence(compiler, allowAssignment, precedence).
ParseFrame(c, allowAssignment, precedence) ==
  [Frame("parsePrecedence", c) EXCEPT !.allowAssignment = allowAssignment, !.precedence = precedence]

Top == stack[Len(stack)]

Callers == SubSeq(stack, 1, Len(stack) - 1)

At(pc) == stack # <<>> /\ Top.pc = pc

\* The machine state m and the control stack next become the state.
StepRun(M, next) == \E m \in {M} :
  /\ parser' = m.parser
  /\ vm' = m.vm
  /\ compilers' = m.compilers
  /\ heap' = m.heap
  /\ pinned' = m.pinned
  /\ stderr' = m.stderr
  /\ log' = m.log
  /\ stack' = next

\* The step's result inside one run of compile.
Step(m, next) ==
  /\ StepRun(m, next)
  /\ UNCHANGED <<source, result, runsLeft>>

\* The Compiler struct of a returning function goes out of scope.
DropCompiler(m) == [m EXCEPT !.compilers = SubSeq(@, 1, Len(@) - 1)]

----------------------------------------------------------------------------
(* Expressions *)

\* parsePrecedence up to the call of the prefix function.
ParsePrecedence ==
  /\ At("parsePrecedence")
  /\ LET Prefix(M1) == \E m1 \in {M1} :
           LET prefix == rules(m1.parser.previous.type).prefix
           IN  IF prefix = NULL
               THEN Step(error(m1, "No prefix parser."), Callers)
               ELSE Step(m1, Callers \o << [Top EXCEPT !.pc = "parsePrecedence_infix"],
                                           [Frame(prefix, Top.c) EXCEPT !.allowAssignment = Top.allowAssignment] >>)
     IN  Prefix(advance(Machine))

\* The loop of parsePrecedence without its nextToken.
ParsePrecedenceInfixNoAdvance ==
  /\ At("parsePrecedence_infix")
  /\ LET Infix(M1) == \E m1 \in {M1} :
           Step([m1 EXCEPT !.log.infix = @ \cup {m1.parser.previous.type}],
                Append(stack, [Frame(rules(m1.parser.previous.type).infix, Top.c)
                                 EXCEPT !.allowAssignment = Top.allowAssignment]))
     IN  IF Top.precedence <= rules(peek(Machine)).precedence
         THEN Infix(Machine)
         ELSE Step([Machine EXCEPT !.log.tested = @ \cup {peek(Machine)}], Callers)

\* The while loop of parsePrecedence: one test and, if it passes, the call of
\* the infix function.  A NULL infix pointer is called as it is: the frame of
\* the call has no code to run.  log.infix is history: the token types whose
\* infix function was called; log.tested: those the test turned down.
ParsePrecedenceInfix ==
  /\ At("parsePrecedence_infix")
  /\ LET Infix(M1) == \E m1 \in {M1} :
           Step([m1 EXCEPT !.log.infix = @ \cup {m1.parser.previous.type}],
                Append(stack, [Frame(rules(m1.parser.previous.type).infix, Top.c)
                                 EXCEPT !.allowAssignment = Top.allowAssignment]))
     IN  IF Top.precedence <= rules(peek(Machine)).precedence
         THEN Infix(advance(Machine))
         ELSE Step([Machine EXCEPT !.log.tested = @ \cup {peek(Machine)}], Callers)

Grouping ==
  /\ At("grouping")
  /\ Step(Machine, Callers \o << Frame("grouping_close", Top.c), ParseFrame(Top.c, 0, PREC_LOWEST) >>)

GroupingClose ==
  /\ At("grouping_close")
  /\ Step(consume(Machine, "TOKEN_RIGHT_PAREN", "Expect ')' after expression."), Callers)

UnaryOp ==
  /\ At("unaryOp")
  /\ Step(Machine, Callers \o << [Frame("unaryOp_call", Top.c) EXCEPT !.type = parser.previous.type],
                                 ParseFrame(Top.c, 0, PREC_UNARY + 1) >>)

\* The rule's name in full, as infixOp passes it.
UnaryOpFullName(rule) == rule.name

\* ensureSymbol(&methods, rule->name, 1): the first character of the rule's name.
UnaryOpName(rule) == SubSeq(rule.name, 1, 1)

UnaryOpCall ==
  /\ At("unaryOp_call")
  /\ LET found == ensureSymbol(vm.methods, UnaryOpName(rules(Top.type)))
         m1 == [Machine EXCEPT !.vm.methods = found.table]
         m2 == emit(m1, Top.c, CODE_CALL(0))
         m3 == emit(m2, Top.c, Byte(found.symbol))
     IN  Step([m3 EXCEPT !.log.unary = Append(@, [ type |-> Top.type, symbol |-> found.symbol,
                                                   at |-> m2.ret, fn |-> compilers[Top.c].fn ])],
              Callers)

Boolean ==
  /\ At("boolean")
  /\ Step(emit(Machine, Top.c, IF parser.previous.type = "TOKEN_FALSE" THEN Op("CODE_FALSE") ELSE Op("CODE_TRUE")),
          Callers)

Null ==
  /\ At("null")
  /\ Step(emit(Machine, Top.c, Op("CODE_NULL")), Callers)

Number ==
  /\ At("number")
  /\ LET start == parser.previous.start
         end == strtodEnd(source, start)
         m1 == IF end = start THEN error(Machine, "Invalid number literal.") ELSE Machine
         m2 == addConstant(m1, Top.c, NUM_VAL(Lexeme(source, start, end)))
     IN  Step(emit(emit(m2, Top.c, Op("CODE_CONSTANT")), Top.c, Byte(m2.ret)), Callers)

String ==
  /\ At("string")
  /\ LET m1 == newString(Machine, Lexeme(source, parser.previous.start + 1, parser.previous.end - 1))
         m2 == addConstant(m1, Top.c, OBJ_VAL(m1.ret))
     IN  Step(emit(emit(m2, Top.c, Op("CODE_CONSTANT")), Top.c, Byte(m2.ret)), Callers)

\* The walk that looks at the compiler itself and no further.
insideMethodOwn(cs, c) ==
  cs[c].isMethod # 0

\* The walk up the parent chain: whether c or a compiler above it is a method's.
RECURSIVE insideMethod(_, _)
insideMethod(cs, c) ==
  IF c = 0 THEN FALSE
  ELSE IF cs[c].isMethod # 0 THEN TRUE
  ELSE insideMethod(cs, cs[c].parent)

\* The isMethod fields of c and of the compilers above it, c's first.
RECURSIVE ParentChain(_, _)
ParentChain(cs, c) ==
  IF c = 0 THEN <<>> ELSE << cs[c].isMethod >> \o ParentChain(cs, cs[c].parent)

\* log.this is history: the chain of frames this_ ran in, and the code, the
\* diagnostics and hasError before and after it.
This ==
  /\ At("this_")
  /\ LET Finish(M1) == \E m1 \in {M1} :
           Step([m1 EXCEPT !.log.this =
                   Append(@, [ fn       |-> compilers[Top.c].fn,
                               chain    |-> ParentChain(compilers, Top.c),
                               before   |-> [ code |-> heap, errors |-> Len(stderr) ],
                               after    |-> [ code |-> m1.heap, errors |-> Len(m1.stderr),
                                              hasError |-> m1.parser.hasError ] ])],
                Callers)
     IN  IF ~insideMethod(compilers, Top.c)
         THEN Finish(error(Machine, "Cannot use 'this' outside of a method."))
         ELSE Finish(emit(emit(Machine, Top.c, Op("CODE_LOAD_LOCAL")), Top.c, Byte(0)))

\* The lookup of name that goes on through the locals of the enclosing frames.
RECURSIVE nameLocalEnclosing(_, _)
nameLocalEnclosing(M, c) == Once({
  IF findSymbol(m.compilers[c].locals, PreviousLexeme(m)) # -1 \/ m.compilers[c].parent = 0
  THEN findSymbol(m.compilers[c].locals, PreviousLexeme(m))
  ELSE nameLocalEnclosing(m, m.compilers[c].parent)
  : m \in {M} })

\* name's lookup of the previous NAME among the locals of its own compiler.
nameLocal(M, c) == Once({
  findSymbol(m.compilers[c].locals, PreviousLexeme(m))
  : m \in {M} })

\* The names that are locals of the frames enclosing c.
RECURSIVE EnclosingLocals(_, _)
EnclosingLocals(M, c) == Once({
  IF m.compilers[c].parent = 0 THEN {}
  ELSE { m.compilers[m.compilers[c].parent].locals[i] :
           i \in DOMAIN m.compilers[m.compilers[c].parent].locals }
       \cup EnclosingLocals(m, m.compilers[c].parent)
  : m \in {M} })

\* name up to the call of statement for the right-hand side, or to its end.
\* log.names is history: the NAME, the tables as name found them, and where
\* in which function its load or store was emitted (filled in by NameStore
\* for a store).
Name ==
  /\ At("name")
  /\ LET local == nameLocal(Machine, Top.c)
         global == IF local = -1 THEN findSymbol(vm.globalSymbols, PreviousLexeme(Machine)) ELSE 0
         noted == [Machine EXCEPT !.log.names =
                     Append(@, [ name    |-> PreviousLexeme(Machine),
                                 fn      |-> compilers[Top.c].fn,
                                 locals  |-> compilers[Top.c].locals,
                                 globals |-> vm.globalSymbols,
                                 outer   |-> EnclosingLocals(Machine, Top.c),
                                 errors  |-> Len(stderr),
                                 store   |-> matched(Machine, "TOKEN_EQ"),
                                 at      |-> IF matched(Machine, "TOKEN_EQ") THEN -1
                                             ELSE numCodes(Machine, Top.c) ])]
         m1 == IF local = -1 /\ global = -1 THEN error(noted, "Undefined variable.") ELSE noted
         Assign(M2) == \E m2 \in {M2} :
           Step(IF Top.allowAssignment = 0 THEN error(m2, "Invalid assignment.") ELSE m2,
                Callers \o << [Frame("name_store", Top.c) EXCEPT !.x = local, !.y = global,
                                                                 !.z = Len(m2.log.names)],
                              Frame("statement", Top.c) >>)
     IN  IF matched(m1, "TOKEN_EQ")
         THEN Assign(match(m1, "TOKEN_EQ"))
         ELSE IF local # -1
         THEN Step(emit(emit(m1, Top.c, Op("CODE_LOAD_LOCAL")), Top.c, Byte(local)), Callers)
         ELSE Step(emit(emit(m1, Top.c, Op("CODE_LOAD_GLOBAL")), Top.c, Byte(global)), Callers)

\* The end of name for an assignment.  The frame's z is the entry of
\* log.names that name wrote (history).
NameStore ==
  /\ At("name_store")
  /\ LET Store(M1) == \E m1 \in {M1} :
           IF Top.x # -1
           THEN Step(emit(emit(m1, Top.c, Op("CODE_STORE_LOCAL")), Top.c, Byte(Top.x)), Callers)
           ELSE Step(emit(emit(m1, Top.c, Op("CODE_STORE_GLOBAL")), Top.c, Byte(Top.y)), Callers)
     IN  Store([Machine EXCEPT !.log.names[Top.z].at = numCodes(Machine, Top.c)])

\* The end of call with the symbol of the bare name, without the spaces of the arguments.
callEmitBare(M, c, bare, name, numArgs) == Once({
  LET found == ensureSymbol(m.vm.methods, bare)
      m1 == [m EXCEPT !.vm.methods = found.table]
      m2 == emit(m1, c, CODE_CALL(numArgs))
      m3 == emit(m2, c, Byte(found.symbol))
  IN  [m3 EXCEPT !.log.calls = Append(@, [ name |-> bare, numArgs |-> numArgs, symbol |-> found.symbol,
                                           at |-> m2.ret, fn |-> m.compilers[c].fn ])]
  : m \in {M} })

\* The end of call: the symbol of the name built, CALL_0 + numArgs and the symbol.
\* log.calls is history: the NAME after the '.', the arguments compiled and
\* what was emitted for them.
callEmit(M, c, bare, name, numArgs) == Once({
  LET found == ensureSymbol(m.vm.methods, name)
      m1 == [m EXCEPT !.vm.methods = found.table]
      m2 == emit(m1, c, CODE_CALL(numArgs))
      m3 == emit(m2, c, Byte(found.symbol))
  IN  [m3 EXCEPT !.log.calls = Append(@, [ name |-> bare, numArgs |-> numArgs, symbol |-> found.symbol,
                                           at |-> m2.ret, fn |-> m.compilers[c].fn ])]
  : m \in {M} })

\* call up to the call of statement for the first argument, or to its end.
\* The frame's z holds the bare method name's length (history).
Call ==
  /\ At("call")
  /\ LET Named(M1) == \E m1 \in {M1} :
           LET name == PreviousLexeme(m1)
           IN  IF matched(m1, "TOKEN_LEFT_PAREN")
               THEN Step(match(m1, "TOKEN_LEFT_PAREN"),
                         Callers \o << [Frame("call_argument", Top.c) EXCEPT !.name = name, !.z = Len(name)],
                                       Frame("statement", Top.c) >>)
               ELSE Step(callEmit(m1, Top.c, name, name, 0), Callers)
     IN  Named(consume(Machine, "TOKEN_NAME", "Expect method name after '.'."))

\* The rest of the do ... while (match(TOKEN_COMMA)) after an argument, and the end of call.
CallArgument ==
  /\ At("call_argument")
  /\ LET numArgs == Top.numArgs + 1
         name == Append(Top.name, " ")
     IN  IF matched(Machine, "TOKEN_COMMA")
         THEN Step(match(Machine, "TOKEN_COMMA"),
                   Callers \o << [Top EXCEPT !.name = name, !.numArgs = numArgs], Frame("statement", Top.c) >>)
         ELSE Step(callEmit(consume(Machine, "TOKEN_RIGHT_PAREN", "Expect ')' after arguments."),
                            Top.c, SubSeq(Top.name, 1, Top.z), name, numArgs),
                   Callers)

Is ==
  /\ At("is")
  /\ Step(Machine, Callers \o << Frame("is_emit", Top.c), ParseFrame(Top.c, 0, PREC_CALL) >>)

IsEmit ==
  /\ At("is_emit")
  /\ Step(emit(Machine, Top.c, Op("CODE_IS")), Callers)

\* infixOp with the right operand parsed at the operator's own precedence.
InfixOpSamePrecedence ==
  /\ At("infixOp")
  /\ Step(Machine, Callers \o << [Frame("infixOp_call", Top.c) EXCEPT !.type = parser.previous.type],
                                 ParseFrame(Top.c, 0, rules(parser.previous.type).precedence) >>)

InfixOp ==
  /\ At("infixOp")
  /\ Step(Machine, Callers \o << [Frame("infixOp_call", Top.c) EXCEPT !.type = parser.previous.type],
                                 ParseFrame(Top.c, 0, rules(parser.previous.type).precedence + 1) >>)

\* infixOp with addSymbol in the place of ensureSymbol.
InfixOpCallAdd ==
  /\ At("infixOp_call")
  /\ LET found == addSymbol(vm.methods, rules(Top.type).name)
         m1 == [Machine EXCEPT !.vm.methods = found.table]
     IN  Step(emit(emit(m1, Top.c, CODE_CALL(1)), Top.c, Byte(found.symbol)), Callers)

InfixOpCall ==
  /\ At("infixOp_call")
  /\ LET found == ensureSymbol(vm.methods, rules(Top.type).name)
         m1 == [Machine EXCEPT !.vm.methods = found.table]
     IN  Step(emit(emit(m1, Top.c, CODE_CALL(1)), Top.c, Byte(found.symbol)), Callers)

\* function up to the call of definition or expression for the body.
Function ==
  /\ At("function")
  /\ LET k == Len(compilers) + 1
         Declare(M1) == Once({
           addReceiver([m1 EXCEPT !.heap[m1.compilers[Top.c].fn].constants =
                                    Append(@, OBJ_VAL(m1.compilers[k].fn))],
                       k)
           : m1 \in {M1} })
         Body(M4) == \E m4 \in {M4} :
           IF matched(m4, "TOKEN_LEFT_BRACE")
           THEN Step(match(m4, "TOKEN_LEFT_BRACE"),
                     Callers \o << [Frame("function_body", Top.c) EXCEPT !.k = k], Frame("definition", k) >>)
           ELSE Step(m4, Callers \o << [Frame("function_end", Top.c) EXCEPT !.k = k], ParseFrame(k, 0, PREC_LOWEST) >>)
     IN  Body(parameterList(Declare(initCompiler(Machine, Top.c, 0)), k, <<>>, FALSE))

\* The rest of the block body's for (;;) after a definition.
FunctionBody ==
  /\ At("function_body")
  /\ LET Again(M1) == \E m1 \in {M1} :
           IF m1.ret = "again"
           THEN Step(m1, Append(stack, Frame("definition", Top.k)))
           ELSE Step(m1, Callers \o << [Top EXCEPT !.pc = "function_end"] >>)
     IN  Again(bodyLoopTail(Machine, Top.k, "TOKEN_RIGHT_BRACE", "Expect '}' after function body."))

\* The end of function with END emitted through compiler, not fnCompiler.
FunctionEndOuter ==
  /\ At("function_end")
  /\ LET m1 == emit(Machine, Top.c, Op("CODE_END"))
         m2 == emit(m1, Top.c, Op("CODE_CONSTANT"))
         m3 == emit(m2, Top.c, Byte(numConstants(m2, Top.c) - 1))
     IN  Step(DropCompiler([m3 EXCEPT !.log.finished = Append(@, m3.compilers[Top.k].fn)]), Callers)

\* log.finished is history: the function objects whose frame is finished.
FunctionEnd ==
  /\ At("function_end")
  /\ LET m1 == emit(Machine, Top.k, Op("CODE_END"))
         m2 == emit(m1, Top.c, Op("CODE_CONSTANT"))
         m3 == emit(m2, Top.c, Byte(numConstants(m2, Top.c) - 1))
     IN  Step(DropCompiler([m3 EXCEPT !.log.finished = Append(@, m3.compilers[Top.k].fn)]), Callers)

----------------------------------------------------------------------------
(* Statements and definitions *)

\* statement up to its first call: the condition of an if, the first
\* definition of a block, or the assignment expression.
Statement ==
  /\ At("statement")
  /\ IF matched(Machine, "TOKEN_IF")
     THEN Step(consume(match(Machine, "TOKEN_IF"), "TOKEN_LEFT_PAREN", "Expect '(' after 'if'."),
               Callers \o << Frame("statement_ifCondition", Top.c), ParseFrame(Top.c, 1, PREC_LOWEST) >>)
     ELSE IF matched(Machine, "TOKEN_LEFT_BRACE")
     THEN Step(match(Machine, "TOKEN_LEFT_BRACE"),
               Callers \o << Frame("statement_block", Top.c), Frame("definition", Top.c) >>)
     ELSE Step(Machine, Callers \o << ParseFrame(Top.c, 1, PREC_LOWEST) >>)

\* After the condition: JUMP_IF and its placeholder, then the then branch.
StatementIfCondition ==
  /\ At("statement_ifCondition")
  /\ LET Then(M3) == \E m3 \in {M3} :
           Step(m3, Callers \o << [Frame("statement_ifThen", Top.c) EXCEPT !.x = m3.ret], Frame("statement", Top.c) >>)
     IN  Then(emit(emit(consume(Machine, "TOKEN_RIGHT_PAREN", "Expect ')' after if condition."),
                        Top.c, Op("CODE_JUMP_IF")),
                   Top.c, Byte(255)))

\* bytecode[jump] = numCodes - jump - 1.  log.jumps is history: the operand
\* patched and the offset of the instruction emitted next, its target.
patchJump(M, c, jump) == Once({
  [m EXCEPT !.heap[m.compilers[c].fn].bytecode[jump + 1] = Byte(numCodes(m, c) - jump - 1),
            !.log.jumps = Append(@, [fn |-> m.compilers[c].fn, operand |-> jump, target |-> numCodes(m, c)])]
  : m \in {M} })

\* After the then branch: JUMP and its placeholder, the patch of JUMP_IF, then
\* the else branch or NULL.
StatementIfThen ==
  /\ At("statement_ifThen")
  /\ LET m1 == emit(Machine, Top.c, Op("CODE_JUMP"))
         m2 == emit(m1, Top.c, Byte(255))
         elseJump == m2.ret
         m3 == patchJump(m2, Top.c, Top.x)
     IN  IF matched(m3, "TOKEN_ELSE")
         THEN Step(match(m3, "TOKEN_ELSE"),
                   Callers \o << [Frame("statement_ifElse", Top.c) EXCEPT !.y = elseJump], Frame("statement", Top.c) >>)
         ELSE Step(patchJump(emit(m3, Top.c, Op("CODE_NULL")), Top.c, elseJump), Callers)

StatementIfElse ==
  /\ At("statement_ifElse")
  /\ Step(patchJump(Machine, Top.c, Top.y), Callers)

\* The rest of the curly block's for (;;) after a definition.
StatementBlock ==
  /\ At("statement_block")
  /\ LET Again(M1) == \E m1 \in {M1} :
           IF m1.ret = "again"
           THEN Step(m1, Append(stack, Frame("definition", Top.c)))
           ELSE Step(m1, Callers)
     IN  Again(bodyLoopTail(Machine, Top.c, "TOKEN_RIGHT_BRACE", "Expect '}' after block body."))

\* definition up to its first call: the superclass expression, the class
\* body, the initializer of a var, or the statement.
Definition ==
  /\ At("definition")
  /\ LET Class(M1) == \E m1 \in {M1} :
           IF matched(m1, "TOKEN_IS")
           THEN Step(match(m1, "TOKEN_IS"),
                     Callers \o << [Frame("definition_superclass", Top.c) EXCEPT !.x = m1.ret],
                                   ParseFrame(Top.c, 0, PREC_CALL) >>)
           ELSE Step(consume(defineVariable(emit(m1, Top.c, Op("CODE_CLASS")), Top.c, m1.ret),
                             "TOKEN_LEFT_BRACE", "Expect '}' after class body."),
                     Callers \o << Frame("definition_classBody", Top.c) >>)
         Var(M1) == \E m1 \in {M1} :
           Step(consume(m1, "TOKEN_EQ", "Expect '=' after variable name."),
                Callers \o << [Frame("definition_var", Top.c) EXCEPT !.x = m1.ret], Frame("statement", Top.c) >>)
     IN  IF matched(Machine, "TOKEN_CLASS")
         THEN Class(declareVariable(match(Machine, "TOKEN_CLASS"), Top.c))
         ELSE IF matched(Machine, "TOKEN_VAR")
         THEN Var(declareVariable(match(Machine, "TOKEN_VAR"), Top.c))
         ELSE Step(Machine, Callers \o << Frame("statement", Top.c) >>)

\* After the superclass expression: SUBCLASS, the variable, the '{'.
DefinitionSuperclass ==
  /\ At("definition_superclass")
  /\ LET m1 == defineVariable(emit(Machine, Top.c, Op("CODE_SUBCLASS")), Top.c, Top.x)
     IN  Step(consume(m1, "TOKEN_LEFT_BRACE", "Expect '}' after class body."),
              Callers \o << Frame("definition_classBody", Top.c) >>)

\* One round of while (!match(TOKEN_RIGHT_BRACE)) up to the call of method.
DefinitionClassBody ==
  /\ At("definition_classBody")
  /\ LET isStatic == IF matched(Machine, "TOKEN_STATIC") THEN 1 ELSE 0
         Signature(M1) == \E m1 \in {M1} :
           LET sig == rules(m1.parser.current.type).method
               Invoke(M2) == \E m2 \in {M2} :
                 IF sig = NULL
                 THEN Step(error(m2, "Expect method definition."), Callers)
                 ELSE Step(m2, Callers \o << Frame("definition_afterMethod", Top.c),
                                             [Frame("method", Top.c) EXCEPT !.x = isStatic, !.type = sig] >>)
           IN  Invoke(advance(m1))
     IN  IF matched(Machine, "TOKEN_RIGHT_BRACE")
         THEN Step(match(Machine, "TOKEN_RIGHT_BRACE"), Callers)
         ELSE Signature(match(Machine, "TOKEN_STATIC"))

DefinitionAfterMethod ==
  /\ At("definition_afterMethod")
  /\ Step(consume(Machine, "TOKEN_LINE", "Expect newline after definition in class."),
          Callers \o << Frame("definition_classBody", Top.c) >>)

\* After the initializer of a var.
DefinitionVar ==
  /\ At("definition_var")
  /\ Step(defineVariable(Machine, Top.c, Top.x), Callers)

\* method up to the call of definition for the body.  The frame keeps
\* isStatic in x, the symbol in y and the constant in z.  log.methods is
\* history: the name token of the method, the parameters its signature
\* declared and the symbol registered.
Method ==
  /\ At("method")
  /\ LET k == Len(compilers) + 1
         name == PreviousLexeme(Machine)
         Declare(m2) == addReceiver(m2, k)
         Register(M4, constant, declared) == \E m4 \in {M4} :
           LET found == ensureSymbol(m4.vm.methods, m4.ret)
               m5 == [m4 EXCEPT !.vm.methods = found.table,
                                !.log.methods = Append(@, [ name |-> name,
                                                            numParams |-> m4.log.declared - declared,
                                                            symbol |-> found.symbol ])]
           IN  Step(consume(m5, "TOKEN_LEFT_BRACE", "Expect '{' to begin method body."),
                    Callers \o << [Frame("method_body", Top.c) EXCEPT !.k = k, !.x = Top.x, !.y = found.symbol,
                                                                     !.z = constant],
                                  Frame("definition", k) >>)
         Signature(M3) == \E m3 \in {M3} : Register(signature(Top.type, m3, k, name), m3.ret, m3.log.declared)
         Constant(M1) == \E m1 \in {M1} : Signature(Declare(addConstant(m1, Top.c, OBJ_VAL(m1.compilers[k].fn))))
     IN  Constant(initCompiler(Machine, Top.c, 1))

\* The rest of the method body's for (;;) after a definition, and the end of method.
MethodBody ==
  /\ At("method_body")
  /\ LET End(m1) ==
           LET m2 == emit(m1, Top.k, Op("CODE_END"))
               m3 == IF Top.x # 0 THEN emit(m2, Top.c, Op("CODE_METACLASS")) ELSE m2
               m4 == emit(emit(emit(m3, Top.c, Op("CODE_METHOD")), Top.c, Byte(Top.y)), Top.c, Byte(Top.z))
               m5 == IF Top.x # 0 THEN emit(m4, Top.c, Op("CODE_POP")) ELSE m4
           IN  Step(DropCompiler([m5 EXCEPT !.log.finished = Append(@, m5.compilers[Top.k].fn)]), Callers)
         Again(M1) == \E m1 \in {M1} :
           IF m1.ret = "again"
           THEN Step(m1, Append(stack, Frame("definition", Top.k)))
           ELSE End(m1)
     IN  Again(bodyLoopTail(Machine, Top.k, "TOKEN_RIGHT_BRACE", "Expect '}' after method body."))


----------------------------------------------------------------------------
(* compile *)

\* compile that does not pin the function it builds.
CompileUnpinned ==
  /\ stack = <<>>
  /\ runsLeft > 0
  /\ LET Pin(m1) == m1
         Start(m2) ==
           /\ StepRun(m2, << Frame("compile_loop", 1), Frame("definition", 1) >>)
           /\ runsLeft' = runsLeft - 1
           /\ UNCHANGED <<source, result>>
     IN  Start(Pin(initCompiler([Machine EXCEPT !.parser = nextToken(source, NewParser),
                                                !.log.start = [ stderr  |-> Len(stderr),
                                                                globals |-> Len(vm.globalSymbols),
                                                                heap    |-> Len(heap) ]],
                                0, 0)))

\* compile up to the first call of definition.  log.start is history: the
\* diagnostics, the globals and the objects there were when this compilation
\* began.
Compile ==
  /\ stack = <<>>
  /\ runsLeft > 0
  /\ LET Pin(M1) == Once({ pinObj(m1, m1.compilers[1].fn) : m1 \in {M1} })
         Start(m2) ==
           /\ StepRun(m2, << Frame("compile_loop", 1), Frame("definition", 1) >>)
           /\ runsLeft' = runsLeft - 1
           /\ UNCHANGED <<source, result>>
     IN  Start(Pin(initCompiler([Machine EXCEPT !.parser = nextToken(source, NewParser),
                                                !.log.start = [ stderr  |-> Len(stderr),
                                                                globals |-> Len(vm.globalSymbols),
                                                                heap    |-> Len(heap) ]],
                                0, 0)))

\* The rest of compile's for (;;) after a definition, and the end of compile.
\* An entry of result holds the value returned (0 is NULL) and, as history,
\* the function built, the diagnostics written during the compilation and
\* the globals it added.
CompileLoop ==
  /\ At("compile_loop")
  /\ LET End(M2) == Once({
           LET fn == m2.compilers[1].fn
           IN  DropCompiler([unpinObj(m2, fn) EXCEPT !.log.finished = Append(@, fn)])
           : m2 \in {M2} })
         Finish(M4, fn) == \E m4 \in {M4} :
           /\ StepRun(m4, <<>>)
           /\ result' = Append(result, [ value |-> IF m4.parser.hasError # 0 THEN 0 ELSE fn,
                                         built |-> fn,
                                         diagnostics |-> Len(m4.stderr) - m4.log.start.stderr,
                                         declared |-> Len(m4.vm.globalSymbols) - m4.log.start.globals ])
           /\ UNCHANGED <<source, runsLeft>>
         Again(M1) == \E m1 \in {M1} :
           IF m1.ret = "again"
           THEN Step(m1, Append(stack, Frame("definition", 1)))
           ELSE Finish(End(emit(m1, 1, Op("CODE_END"))), m1.compilers[1].fn)
     IN  Again(bodyLoopTail(Machine, 1, "TOKEN_EOF", "Expect end of file."))


----------------------------------------------------------------------------
(* Sources *)

\*   
SourceEmpty ==
  <<>>

\*   var x = 1
SourceVarX ==
  <<"v","a","r"," ","x"," ","="," ","1">>

\*   var x = 1
\*   x = 2
\*   x
SourceVarAssignLoad ==
  <<"v","a","r"," ","x"," ","="," ","1","\n","x"," ","="," ","2","\n","x">>

\*   1 + 2 * 3
SourceArithmetic ==
  <<"1"," ","+"," ","2"," ","*"," ","3">>

\*   if (true) 1 else 2
SourceIfElse ==
  <<"i","f"," ","(","t","r","u","e",")"," ","1"," ","e","l","s","e"," ","2">>

\*   class A { foo(x) { x } }
\*   A.foo(1)
SourceClassOneLine ==
  <<"c","l","a","s","s"," ","A"," ","{"," ","f","o","o","(","x",")"," ","{"," ","x"," ","}"," ","}","\n","A",".","f","o","o","(","1",")">>

\*   class A { foo(x) { x }
\*   }
\*   A.foo(1)
SourceClassNewline ==
  <<"c","l","a","s","s"," ","A"," ","{"," ","f","o","o","(","x",")"," ","{"," ","x"," ","}","\n","}","\n","A",".","f","o","o","(","1",")">>

\*   fn(x,y) x + y
SourceFnExpr ==
  <<"f","n","(","x",",","y",")"," ","x"," ","+"," ","y">>

\*   var f = fn {
\*   var a = "s"
\*   a
\*   }
\*   f.call
SourceFnBlock ==
  <<"v","a","r"," ","f"," ","="," ","f","n"," ","{","\n","v","a","r"," ","a"," ","="," ","\"","s","\"","\n","a","\n","}","\n","f",".","c","a","l","l">>

\*   class A {}
\*   class B is A {
\*   static make { this }
\*   - { null }
\*   - other { false }
\*   ! { this }
\*   }
\*   -B
SourceSubclass ==
  <<"c","l","a","s","s"," ","A"," ","{","}","\n","c","l","a","s","s"," ","B"," ","i","s"," ","A"," ","{","\n","s","t","a","t","i","c"," ","m","a","k","e"," ","{"," ","t","h","i","s"," ","}","\n","-"," ","{"," ","n","u","l","l"," ","}","\n","-"," ","o","t","h","e","r"," ","{"," ","f","a","l","s","e"," ","}","\n","!"," ","{"," ","t","h","i","s"," ","}","\n","}","\n","-","B">>

\*   var a = 1
\*   -a
\*   !a is (a)
\*   if (a == 1) { a }
SourceOperators ==
  <<"v","a","r"," ","a"," ","="," ","1","\n","-","a","\n","!","a"," ","i","s"," ","(","a",")","\n","i","f"," ","(","a"," ","=","="," ","1",")"," ","{"," ","a"," ","}">>

\*   x = 
\*   var x = 1 1
\*   this
SourceErrors ==
  <<"x"," ","="," ","\n","v","a","r"," ","x"," ","="," ","1"," ","1","\n","t","h","i","s">>

\*   var g = 1
\*   var f = fn {
\*   var a = 2
\*   var g = 3
\*   g = a
\*   fn { a }
\*   g
\*   }
SourceScopes ==
  <<"v","a","r"," ","g"," ","="," ","1","\n","v","a","r"," ","f"," ","="," ","f","n"," ","{","\n","v","a","r"," ","a"," ","="," ","2","\n","v","a","r"," ","g"," ","="," ","3","\n","g"," ","="," ","a","\n","f","n"," ","{"," ","a"," ","}","\n","g","\n","}">>

\*   fn { this }
\*   class A {
\*   f { fn { this } }
\*   }
SourceThis ==
  <<"f","n"," ","{"," ","t","h","i","s"," ","}","\n","c","l","a","s","s"," ","A"," ","{","\n","f"," ","{"," ","f","n"," ","{"," ","t","h","i","s"," ","}"," ","}","\n","}">>

\*   var f = fn(x, y) {
\*   var a = x
\*   var b = y
\*   a + b
\*   }
SourceLocals ==
  <<"v","a","r"," ","f"," ","="," ","f","n","(","x",","," ","y",")"," ","{","\n","v","a","r"," ","a"," ","="," ","x","\n","v","a","r"," ","b"," ","="," ","y","\n","a"," ","+"," ","b","\n","}">>

\*   fn { var a = { var b = 1 } }
SourceLocalInInitializer ==
  <<"f","n"," ","{"," ","v","a","r"," ","a"," ","="," ","{"," ","v","a","r"," ","b"," ","="," ","1"," ","}"," ","}">>

\*   fn(x) { x.f({ var a = 1 }) }
SourceLocalInArgument ==
  <<"f","n","(","x",")"," ","{"," ","x",".","f","(","{"," ","v","a","r"," ","a"," ","="," ","1"," ","}",")"," ","}">>

\*   fn(x) {
\*   if (x) { var a = 1 }
\*   var b = 2
\*   }
SourceLocalAfterIf ==
  <<"f","n","(","x",")"," ","{","\n","i","f"," ","(","x",")"," ","{"," ","v","a","r"," ","a"," ","="," ","1"," ","}","\n","v","a","r"," ","b"," ","="," ","2","\n","}">>

\* The scenarios of the specification's section 8 and sources that reach every
\* function of the compiler.
Programs ==
  { SourceEmpty,
    SourceVarX,
    SourceVarAssignLoad,
    SourceArithmetic,
    SourceIfElse,
    SourceClassOneLine,
    SourceClassNewline,
    SourceFnExpr,
    SourceFnBlock,
    SourceSubclass,
    SourceOperators,
    SourceErrors,
    SourceScopes,
    SourceThis,
    SourceLocals,
    SourceLocalInInitializer,
    SourceLocalInArgument,
    SourceLocalAfterIf }

\* Lines to build sources from: definitions, statements, pieces of a class.
Lines ==
  << <<>>,
     <<" ">>,
     <<"v","a","r"," ","a"," ","="," ","1">>,
     <<"a"," ","="," ","2">>,
     <<"a">>,
     <<"i","f"," ","(","a",")"," ","1"," ","e","l","s","e"," ","2">>,
     <<"c","l","a","s","s"," ","A"," ","{">>,
     <<"}">>,
     <<"f","(","x",")"," ","{"," ","x"," ","}">>,
     <<"A",".","f","(","1",")">>,
     <<"f","n","(","x",")"," ","x">>,
     <<"{">>,
     <<"-","a"," ","+"," ","1">>,
     <<"t","h","i","s">>,
     <<"\"","s","\"">>,
     <<"s","t","a","t","i","c"," ","g"," ","{"," ","t","h","i","s"," ","}">> >>

\* The most lines a built source has.
MaxLines == 2

\* The lines picked, joined by newlines.
RECURSIVE JoinLines(_)
JoinLines(picked) ==
  IF picked = <<>> THEN <<>>
  ELSE IF Len(picked) = 1 THEN Lines[picked[1]]
  ELSE Lines[picked[1]] \o <<"\n">> \o JoinLines(Tail(picked))

LinePrograms ==
  { JoinLines(picked) : picked \in UNION { [1..n -> 1..Len(Lines)] : n \in 0..MaxLines } }

\* The most parameters and arguments of the methods and calls built.
MaxArity == 2

LowerSeq ==
  <<"a","b","c","d","e","f","g","h","i","j","k","l","m","n","o","p","q","r","s","t","u","v","w","x","y","z">>

\* The first n letters as parameters, or n arguments "1", with commas between.
RECURSIVE CommaList(_, _)
CommaList(n, parameters) ==
  LET item == IF parameters THEN <<LowerSeq[n]>> ELSE <<"1">>
  IN  IF n = 1 THEN item ELSE CommaList(n - 1, parameters) \o <<",">> \o item

\* The list in parentheses; nothing for n = 0.
Parenthesised(n, parameters) ==
  IF n = 0 THEN <<>> ELSE <<"(">> \o CommaList(n, parameters) \o <<")">>

\* name(a,b) { 1 }
MethodLine(name, n) == name \o Parenthesised(n, TRUE) \o <<" ", "{", " ", "1", " ", "}">>

\* null.name(1,1)
CallLine(name, n) == <<"n","u","l","l",".">> \o name \o Parenthesised(n, FALSE)

MethodNames == { <<"f">>, <<"g","o">> }

Signatures == MethodNames \X (0..MaxArity)

\* A class with two methods and one call, before or after the class.
ArityPrograms ==
  { IF callFirst
    THEN CallLine(c[1], c[2]) \o <<"\n">> \o <<"c","l","a","s","s"," ","A"," ","{","\n">>
         \o MethodLine(d[1], d[2]) \o <<"\n">> \o MethodLine(e[1], e[2]) \o <<"\n", "}">>
    ELSE <<"c","l","a","s","s"," ","A"," ","{","\n">>
         \o MethodLine(d[1], d[2]) \o <<"\n">> \o MethodLine(e[1], e[2]) \o <<"\n", "}", "\n">> \o CallLine(c[1], c[2])
    : <<d, e, c, callFirst>> \in Signatures \X Signatures \X Signatures \X BOOLEAN }

\* The lexemes of the binary operators.
BinaryOperators ==
  << <<"*">>, <<"/">>, <<"%">>, <<"+">>, <<"-">>, <<"<">>, <<">">>,
     <<"<", "=">>, <<">", "=">>, <<"=", "=">>, <<"!", "=">> >>

\* The most operators of a chain built.
MaxOperators == 2

\* Operand i of a chain is the number i.
OperandDigits == <<"1", "2", "3", "4", "5", "6", "7", "8", "9">>

\* "1 op 2 op 3 ...": the operands 1 .. Len(ops) + 1 joined by the operators
\* ops, given by their places in BinaryOperators, with spaces around each.
RECURSIVE ChainSource(_)
ChainSource(ops) ==
  IF ops = <<>> THEN << OperandDigits[1] >>
  ELSE ChainSource(SubSeq(ops, 1, Len(ops) - 1))
       \o <<" ">> \o BinaryOperators[ops[Len(ops)]] \o <<" ">> \o << OperandDigits[Len(ops) + 1] >>

OperatorChains == UNION { [1..n -> DOMAIN BinaryOperators] : n \in 1..MaxOperators }

ChainPrograms == { ChainSource(ops) : ops \in OperatorChains }

\* The kinds of body.
BodyKinds == {"top", "block", "function", "method"}

\* The most definitions of a body built, and the most newlines between two
\* of them and before the closer.
MaxDefinitions == 3

MaxNewlines == 2

Newlines(n) == [i \in 1..n |-> "\n"]

\* The definitions "1", "2", ... n with gap newlines between each two; with
\* no newline a space stands between them.
RECURSIVE Definitions(_, _)
Definitions(n, gap) ==
  IF n = 1 THEN << OperandDigits[1] >>
  ELSE Definitions(n - 1, gap) \o (IF gap = 0 THEN <<" ">> ELSE Newlines(gap)) \o << OperandDigits[n] >>

\* A body of n definitions, with trailing newlines before its end, as the
\* whole source, as a block, as the body of a function and as that of a method.
BodySource(kind, n, gap, trailing) ==
  CASE kind = "top"      -> Definitions(n, gap) \o Newlines(trailing)
    [] kind = "block"    -> <<"{", " ">> \o Definitions(n, gap) \o Newlines(trailing) \o <<" ", "}">>
    [] kind = "function" -> <<"f", "n", " ", "{", " ">> \o Definitions(n, gap) \o Newlines(trailing) \o <<" ", "}">>
    [] kind = "method"   -> <<"c", "l", "a", "s", "s", " ", "A", " ", "{", "\n", "m", " ", "{", " ">>
                            \o Definitions(n, gap) \o Newlines(trailing) \o <<" ", "}", "\n", "}">>

BodyShapes == BodyKinds \X (1..MaxDefinitions) \X (0..MaxNewlines) \X (0..MaxNewlines)

BodyPrograms == { BodySource(b[1], b[2], b[3], b[4]) : b \in BodyShapes }

\* A lexeme of every token type but EOF.
TokenSamples ==
  { <<"(">>, <<")">>, <<"[">>, <<"]">>, <<"{">>, <<"}">>, <<":">>, <<".">>, <<",">>, <<"*">>, <<"/">>,
    <<"%">>, <<"+">>, <<"-">>, <<"|">>, <<"&">>, <<"!">>, <<"=">>, <<"<">>, <<">">>, <<"<", "=">>,
    <<">", "=">>, <<"=", "=">>, <<"!", "=">>, <<"c", "l", "a", "s", "s">>, <<"e", "l", "s", "e">>,
    <<"f", "a", "l", "s", "e">>, <<"f", "n">>, <<"i", "f">>, <<"i", "s">>, <<"n", "u", "l", "l">>,
    <<"s", "t", "a", "t", "i", "c">>, <<"t", "h", "i", "s">>, <<"t", "r", "u", "e">>, <<"v", "a", "r">>,
    <<"a">>, <<"2">>, <<"\"", "s", "\"">>, <<"\n">>, <<"#">> }

\* "1 + 2 ", a token and " 3": an expression with each token after it.
FollowPrograms ==
  { <<"1", " ", "+", " ", "2", " ">> \o t \o <<" ", "3">> : t \in TokenSamples }

\* "if(true)", n times "!", "true": a then branch of 2n + 1 bytes.
Bangs(n) == [i \in 1..n |-> "!"]

IfBangs(n) == <<"i","f","(","t","r","u","e",")">> \o Bangs(n) \o <<"t","r","u","e">>

\* The most '!' of a then branch built: enough for a branch of more than 255 bytes.
MaxBangs == 127

LongIfPrograms == { IfBangs(n) : n \in (MaxBangs - 1)..MaxBangs }

----------------------------------------------------------------------------
(* Specifications *)

NoLog ==
  [ allocs |-> <<>>, finished |-> <<>>, declared |-> 0, jumps |-> <<>>,
    calls |-> <<>>, methods |-> <<>>, unary |-> <<>>, names |-> <<>>,
    this |-> <<>>, locals |-> <<>>, defined |-> <<>>,
    infix |-> {}, tested |-> {}, start |-> [stderr |-> 0, globals |-> 0, heap |-> 0] ]

\* A fresh VM and a driver that is about to call compile on one of the
\* sources, runs times.
InitWith(sources, runs) ==
  /\ source \in sources
  /\ parser = NewParser
  /\ vm = [globalSymbols |-> <<>>, methods |-> <<>>]
  /\ compilers = <<>>
  /\ heap = <<>>
  /\ pinned = {}
  /\ stderr = <<>>
  /\ stack = <<>>
  /\ result = <<>>
  /\ runsLeft = runs
  /\ log = NoLog

Next ==
  \/ Compile
  \/ CompileLoop
  \/ Definition
  \/ DefinitionSuperclass
  \/ DefinitionClassBody
  \/ DefinitionAfterMethod
  \/ DefinitionVar
  \/ Method
  \/ MethodBody
  \/ Statement
  \/ StatementIfCondition
  \/ StatementIfThen
  \/ StatementIfElse
  \/ StatementBlock
  \/ ParsePrecedence
  \/ ParsePrecedenceInfix
  \/ Grouping
  \/ GroupingClose
  \/ UnaryOp
  \/ UnaryOpCall
  \/ Boolean
  \/ Null
  \/ Number
  \/ String
  \/ This
  \/ Name
  \/ NameStore
  \/ Call
  \/ CallArgument
  \/ Is
  \/ IsEmit
  \/ InfixOp
  \/ InfixOpCall
  \/ Function
  \/ FunctionBody
  \/ FunctionEnd

Init == InitWith(Programs \cup LinePrograms \cup ArityPrograms \cup LongIfPrograms \cup ChainPrograms
                \cup BodyPrograms \cup FollowPrograms, 1)

Spec == Init /\ [][Next]_vars

\* How many times the driver compiles its source against the one VM.
Runs == 2

InitTwice == InitWith(Programs, Runs)

SpecTwice == InitTwice /\ [][Next]_vars

----------------------------------------------------------------------------
(* compile run to its end: the sources cut off at every place, and sources *)
(* that end inside a block comment.                                        *)

\* Every source of Programs cut off after each of its characters.
PrefixPrograms == UNION { { SubSeq(src, 1, n) : n \in 0..Len(src) } : src \in Programs }

\* Sources that end inside a block comment, nested or not, and in a line comment.
UnterminatedPrograms ==
  { <<"1"," ","/","*"," ","c">>,
    <<"/","*"," ","a"," ","/","*"," ","b"," ","*","/"," ","1">>,
    <<"c","l","a","s","s"," ","A"," ","{","\n","/","*"," ","}">>,
    <<"f","n"," ","{"," ","1","\n","/","*">>,
    <<"v","a","r"," ","a"," ","="," ","1"," ","/","/"," ","c">>,
    <<"x",".","f","(","/","*">> }

InitLive ==
  InitWith({ src \in PrefixPrograms \cup UnterminatedPrograms \cup FollowPrograms : StringsClosed(src) }, 1)

\* compile is one sequential call: the step that is next is taken.
SpecLive == InitLive /\ [][Next]_vars /\ WF_vars(Next)

----------------------------------------------------------------------------
(* The lexer on its own: nextToken called until it returns EOF. *)

\* A lexeme for every token type, comments, and a comment and a string over
\* two lines; the first is empty.
Lexemes ==
  << <<>>,
     <<"(">>,
     <<")">>,
     <<"[">>,
     <<"]">>,
     <<"{">>,
     <<"}">>,
     <<":">>,
     <<".">>,
     <<",">>,
     <<"*">>,
     <<"/">>,
     <<"%">>,
     <<"+">>,
     <<"-">>,
     <<"|">>,
     <<"&">>,
     <<"!">>,
     <<"=">>,
     <<"<">>,
     <<">">>,
     <<"<","=">>,
     <<">","=">>,
     <<"=","=">>,
     <<"!","=">>,
     <<"c","l","a","s","s">>,
     <<"e","l","s","e">>,
     <<"f","a","l","s","e">>,
     <<"f","n">>,
     <<"i","f">>,
     <<"i","s">>,
     <<"n","u","l","l">>,
     <<"s","t","a","t","i","c">>,
     <<"t","h","i","s">>,
     <<"t","r","u","e">>,
     <<"v","a","r">>,
     <<"a">>,
     <<"a","1">>,
     <<"1">>,
     <<"-","1">>,
     <<"1",".","5">>,
     <<"\"","s","\"">>,
     <<"\"","s","\n","t","\"">>,
     <<"@">>,
     <<"/","/"," ","c">>,
     <<"/","*"," ","c"," ","*","/">>,
     <<"/","*","\n","*","/">>,
     <<"/","*"," ","/","*"," ","*","/","\n","*","/">> >>

\* What separators are made of: a newline, a space, a comment over two
\* lines, a line comment.
SeparatorPieces ==
  << <<"\n">>,
     <<" ">>,
     <<"/","*","\n","*","/">>,
     <<"/","/"," ","c">> >>

\* The lexemes after the separator.
Followers ==
  << <<"a">>,
     <<"-","1">>,
     <<"+">>,
     <<"\"","s","\n","t","\"">>,
     <<"c","l","a","s","s">>,
     <<")">> >>

\* The most pieces of a separator.
MaxSeparators == 2

RECURSIVE Concat(_, _)
Concat(pieces, picked) ==
  IF picked = <<>> THEN <<>> ELSE pieces[Head(picked)] \o Concat(pieces, Tail(picked))

Separators ==
  { Concat(SeparatorPieces, picked) :
      picked \in UNION { [1..n -> DOMAIN SeparatorPieces] : n \in 0..MaxSeparators } }

\* A lexeme, a separator, a lexeme, and then nothing or a newline and a name.
LexPrograms ==
  { Lexemes[first] \o separator \o Followers[second] \o rest :
      <<first, separator, second, rest>> \in
        (DOMAIN Lexemes) \X Separators \X (DOMAIN Followers) \X { <<>>, <<"\n", "b">> } }

\* One call of nextToken by a caller that stops at EOF.
LexToken ==
  /\ runsLeft = 0
  /\ parser.delivered = <<>> \/ parser.current.type # "TOKEN_EOF"
  /\ parser' = nextToken(source, parser)
  /\ UNCHANGED <<source, vm, compilers, heap, pinned, stderr, stack, result, runsLeft, log>>

InitLex == InitWith({src \in LexPrograms : StringsClosed(src)}, 0)

NextLex == LexToken

SpecLex == InitLex /\ [][NextLex]_vars

----------------------------------------------------------------------------
(* Properties *)

\* C1: compile returns NULL if and only if a diagnostic was reported during
\* that compilation.  hasError is 0 until the first diagnostic of the
\* compilation and 1 from then on, whatever is parsed afterwards, and the value
\* compile returns after END is decided by it.
C1_NullIffDiagnostic ==
  /\ parser.hasError \in {0, 1}
  /\ (parser.hasError = 1) <=> (Len(stderr) > log.start.stderr)
  /\ \A i \in DOMAIN result : (result[i].value = 0) <=> (result[i].diagnostics > 0)

\* A compilation that reported a diagnostic, went on parsing, reported another
\* one and returned NULL.
C1_Witness ==
  \E i \in DOMAIN result : result[i].value = 0 /\ result[i].diagnostics >= 2

OnlyWhitespace(src) == \A i \in DOMAIN src : src[i] \in {" ", "\n"}

\* C2: a source of spaces and newlines only, the empty source included,
\* compiles without a diagnostic to a function whose bytecode is END alone.
C2_WhitespaceCompilesToEnd ==
  \A i \in DOMAIN result :
    OnlyWhitespace(source) =>
      /\ result[i].value # 0
      /\ result[i].diagnostics = 0
      /\ heap[result[i].built].bytecode = << Op("CODE_END") >>

\* The top-level bytecode of the class-and-call scenario: A's global symbol,
\* the method symbol of "foo " at the definition and at the call, the
\* method's function as constant 0 and the argument as constant k.
ClassAndCallCode(symA, symFoo, k) ==
  << Op("CODE_CLASS"), Op("CODE_STORE_GLOBAL"), Byte(symA),
     Op("CODE_METHOD"), Byte(symFoo), Byte(0), Op("CODE_POP"),
     Op("CODE_LOAD_GLOBAL"), Byte(symA), Op("CODE_CONSTANT"), Byte(k),
     CODE_CALL(1), Byte(symFoo), Op("CODE_END") >>

CompilesToClassAndCall(src) ==
  (source = src /\ result # <<>>) =>
    /\ result[1].value # 0
    /\ result[1].diagnostics = 0
    /\ findSymbol(vm.globalSymbols, <<"A">>) # -1
    /\ findSymbol(vm.methods, <<"f", "o", "o", " ">>) # -1
    /\ \E k \in 0..255 :
         heap[result[1].built].bytecode =
           ClassAndCallCode(findSymbol(vm.globalSymbols, <<"A">>),
                            findSymbol(vm.methods, <<"f", "o", "o", " ">>), k)

\* C3, as stated: the source with the method body and the class's closing
\* brace on one line, `class A { foo(x) { x } }` / `A.foo(1)`, compiles
\* without a diagnostic to CLASS, STORE_GLOBAL A, METHOD "foo " 0, POP,
\* LOAD_GLOBAL A, CONSTANT k, CALL_1 "foo ", END.
C3_ClassAndCallOneLine == CompilesToClassAndCall(SourceClassOneLine)

\* C3, amended: the source with a newline between the method's closing brace
\* and the class's, `class A { foo(x) { x }` / `}` / `A.foo(1)`, compiles
\* without a diagnostic to that bytecode, with k = 1 and one symbol for
\* "foo " at both places; the one-line form reports "Expect newline after
\* definition in class." and compile returns NULL.
C3_ClassAndCallNewline ==
  /\ CompilesToClassAndCall(SourceClassNewline)
  /\ (source = SourceClassNewline /\ result # <<>>) =>
       heap[result[1].built].bytecode[11] = Byte(1)
  /\ (source = SourceClassOneLine /\ result # <<>>) =>
       /\ result[1].value = 0
       /\ stderr[1].message = "Expect newline after definition in class."

\* The three-line source compiled to its end, successfully.
C3_Witness ==
  source = SourceClassNewline /\ result # <<>> /\ result[1].value # 0

\* C4: the operand of every JUMP and JUMP_IF is, once patched, the distance
\* from the byte after the operand to the target, and that distance is in
\* 0..255, whatever the size of the branches.
C4_JumpOperands ==
  \A i \in DOMAIN log.jumps :
    LET jump == log.jumps[i]
        displacement == jump.target - (jump.operand + 1)
    IN  /\ displacement \in 0..255
        /\ heap[jump.fn].bytecode[jump.operand + 1].n = displacement

\* The signatures seen: at the definitions method() registered and at the
\* call sites call() compiled.
SignaturesSeen ==
  { [name |-> log.methods[i].name, arity |-> log.methods[i].numParams, symbol |-> log.methods[i].symbol] :
      i \in DOMAIN log.methods }
  \cup
  { [name |-> log.calls[i].name, arity |-> log.calls[i].numArgs, symbol |-> log.calls[i].symbol] :
      i \in DOMAIN log.calls }

\* C5: a call site of `name` with n arguments emits CALL_0 + n and then the
\* symbol that a definition of `name` with n parameters registers, and
\* signatures of one name with different arities have different symbols.
C5_CallSymbolIsDefinitionSymbol ==
  /\ \A s, t \in SignaturesSeen :
       s.name = t.name => ((s.arity = t.arity) <=> (s.symbol = t.symbol))
  /\ \A i \in DOMAIN log.calls :
       LET site == log.calls[i]
       IN  /\ heap[site.fn].bytecode[site.at + 1] = CODE_CALL(site.numArgs)
           /\ heap[site.fn].bytecode[site.at + 2] = Byte(site.symbol)
           /\ vm.methods[site.symbol + 1] = site.name \o [j \in 1..site.numArgs |-> " "]

\* A call with arguments, a definition of its name and arity, and a
\* definition of the same name with another arity.
C5_Witness ==
  \E i \in DOMAIN log.calls : \E j, k \in DOMAIN log.methods :
    /\ log.calls[i].numArgs >= 1
    /\ log.methods[j].name = log.calls[i].name
    /\ log.methods[j].numParams = log.calls[i].numArgs
    /\ log.methods[k].name = log.calls[i].name
    /\ log.methods[k].numParams # log.calls[i].numArgs

\* What unaryOp emitted for each '-': CALL_0 and the symbol of methodName,
\* which is not the symbol of another signature of '-'.
UnaryMinusCalls(methodName) ==
  \A i \in DOMAIN log.unary :
    LET site == log.unary[i]
    IN  site.type = "TOKEN_MINUS" =>
          /\ heap[site.fn].bytecode[site.at + 1] = CODE_CALL(0)
          /\ heap[site.fn].bytecode[site.at + 2] = Byte(site.symbol)
          /\ vm.methods[site.symbol + 1] = methodName

\* C6, as stated: `-a` emits CALL_0 and the symbol of the two-character name
\* "- ", the full name of the rule of '-'.
C6_UnaryMinusFullName == UnaryMinusCalls(rules("TOKEN_MINUS").name)

\* C6, amended: `-a` emits CALL_0 and the symbol of the one-character name
\* "-", which is the symbol a definition `- { ... }` without a parameter
\* registers and not the one of `- other { ... }`.
C6_UnaryMinusOneCharacter ==
  /\ UnaryMinusCalls(<<"-">>)
  /\ \A i \in DOMAIN log.unary : \A j \in DOMAIN log.methods :
       (log.unary[i].type = "TOKEN_MINUS" /\ log.methods[j].name = <<"-">>) =>
         ((log.methods[j].numParams = 0) <=> (log.methods[j].symbol = log.unary[i].symbol))

\* A compiled `-a` after definitions of '-' without and with a parameter.
C6_Witness ==
  /\ \E i \in DOMAIN log.unary : log.unary[i].type = "TOKEN_MINUS"
  /\ \E j \in DOMAIN log.methods : log.methods[j].name = <<"-">> /\ log.methods[j].numParams = 0
  /\ \E j \in DOMAIN log.methods : log.methods[j].name = <<"-">> /\ log.methods[j].numParams = 1

\* What a finished function is, whatever the references of its objects: its
\* bytecode and its constants, a function constant by its own image.
RECURSIVE FnImage(_, _)
FnImage(h, fn) ==
  [ bytecode  |-> h[fn].bytecode,
    constants |-> [ i \in DOMAIN h[fn].constants |->
                    LET v == h[fn].constants[i]
                    IN  IF v.t = "num" THEN [t |-> "num", num |-> v.num]
                        ELSE IF h[v.ref].type = "string" THEN [t |-> "string", text |-> h[v.ref].text]
                        ELSE [t |-> "fn", image |-> FnImage(h, v.ref)] ] ]

\* C7, as stated: two compilations of one source against one VM give the
\* same bytecode, and the second succeeds if the first did.
C7_SameBytecodeTwice ==
  \A i \in 1..(Len(result) - 1) :
    /\ FnImage(heap, result[i].built) = FnImage(heap, result[i + 1].built)
    /\ result[i].value # 0 => result[i + 1].value # 0

\* C7, amended: a compilation that follows one which added no global
\* variable gives the same bytecode and the same outcome; one that follows a
\* compilation which added a global variable reports that the variable is
\* already defined, returns NULL and gives other bytecode.
C7_SecondCompilation ==
  \A i \in 1..(Len(result) - 1) :
    /\ result[i].declared = 0 =>
         /\ FnImage(heap, result[i].built) = FnImage(heap, result[i + 1].built)
         /\ (result[i].value = 0) <=> (result[i + 1].value = 0)
         /\ result[i].diagnostics = result[i + 1].diagnostics
    /\ result[i].declared > 0 =>
         /\ result[i + 1].value = 0
         /\ \E d \in DOMAIN stderr : stderr[d].message = "Variable is already defined."
         /\ FnImage(heap, result[i].built) # FnImage(heap, result[i + 1].built)

\* Two successful compilations of a source that calls a method and builds a
\* function, the second into a new function object.
C7_Witness ==
  /\ Len(result) >= 2
  /\ result[1].declared = 0
  /\ result[1].value # 0
  /\ result[2].value # 0
  /\ result[2].built # result[1].built
  /\ vm.methods # <<>>
  /\ \E i \in DOMAIN heap[result[2].built].constants : heap[result[2].built].constants[i].t = "obj"

\* C8: the bytecode of every finished frame, the top-level function's and
\* each nested function's and method's, has END as its last element, and
\* END was emitted into it once; no function holds more than one END.
C8_EndClosesEveryFrame ==
  /\ \A i \in DOMAIN log.finished :
       LET code == heap[log.finished[i]].bytecode
       IN  /\ code # <<>>
           /\ code[Len(code)] = Op("CODE_END")
           /\ Cardinality({j \in DOMAIN code : code[j] = Op("CODE_END")}) = 1
  /\ \A i \in DOMAIN result : \E j \in DOMAIN log.finished : log.finished[j] = result[i].built
  /\ \A fn \in DOMAIN heap :
       Cardinality({j \in DOMAIN heap[fn].bytecode : heap[fn].bytecode[j] = Op("CODE_END")}) <= 1

\* A successful compilation with nested frames: methods and a function.
C8_Witness ==
  /\ \E i \in DOMAIN result : result[i].value # 0
  /\ Len(log.finished) >= 3

\* The newline characters of the source before an offset.
NewlinesBefore(src, offset) == Cardinality({i \in 1..offset : src[i] = "\n"})

\* C9: the line of every token the lexer makes, LINE tokens and tokens after
\* a comment or a string over several lines included, is 1 plus the number
\* of newline characters before the token's start.
C9_TokenLine ==
  \A i \in DOMAIN parser.lexed :
    parser.lexed[i].line = 1 + NewlinesBefore(source, parser.lexed[i].start)

\* The tokens that cannot end an expression: the operators, the opening
\* brackets, '.', ',' and the keywords class, else, if, is, static, var.
NoLineAfter ==
  { "TOKEN_STAR", "TOKEN_SLASH", "TOKEN_PERCENT", "TOKEN_PLUS", "TOKEN_MINUS",
    "TOKEN_PIPE", "TOKEN_AMP", "TOKEN_BANG", "TOKEN_EQ", "TOKEN_LT", "TOKEN_GT",
    "TOKEN_LTEQ", "TOKEN_GTEQ", "TOKEN_EQEQ", "TOKEN_BANGEQ",
    "TOKEN_LEFT_PAREN", "TOKEN_LEFT_BRACKET", "TOKEN_LEFT_BRACE",
    "TOKEN_DOT", "TOKEN_COMMA",
    "TOKEN_CLASS", "TOKEN_ELSE", "TOKEN_IF", "TOKEN_IS", "TOKEN_STATIC", "TOKEN_VAR" }

\* The tokens lexed without the LINE tokens to drop: a LINE that is the first
\* token or comes straight after a LINE or a token that cannot end an
\* expression.
WithoutDroppedLines(lexed) ==
  LET dropped(i) ==
        /\ lexed[i].type = "TOKEN_LINE"
        /\ (i = 1 \/ lexed[i - 1].type \in NoLineAfter \cup {"TOKEN_LINE"})
      kept[n \in 0..Len(lexed)] ==
        IF n = 0 THEN <<>>
        ELSE IF dropped(n) THEN kept[n - 1]
        ELSE Append(kept[n - 1], lexed[n])
  IN  kept[Len(lexed)]

\* C10: among the tokens nextToken delivers, a LINE is never the first, never
\* follows a LINE and never follows a token that cannot end an expression;
\* every other newline token of the source is delivered, as one LINE.
C10_NewlineFilter ==
  /\ parser.delivered # <<>> => parser.delivered[1].type # "TOKEN_LINE"
  /\ \A i \in 2..Len(parser.delivered) :
       parser.delivered[i].type = "TOKEN_LINE" =>
         parser.delivered[i - 1].type \notin NoLineAfter \cup {"TOKEN_LINE"}
  /\ parser.delivered = WithoutDroppedLines(parser.lexed)

\* Newlines lexed one after another, of which one LINE was delivered.
C10_Witness ==
  /\ \E i \in DOMAIN parser.delivered : parser.delivered[i].type = "TOKEN_LINE"
  /\ \E i \in 2..Len(parser.lexed) :
       parser.lexed[i].type = "TOKEN_LINE" /\ parser.lexed[i - 1].type = "TOKEN_LINE"
  /\ parser.current.type = "TOKEN_EOF"

\* C11: at every allocation of a compilation every function and string the
\* compilation allocated earlier is reachable from a root: the top-level
\* function is pinned for as long as the compilation runs, and each nested
\* function, method and string is by then in a constant slot of a reachable
\* function.
C11_AllocatedObjectsRooted ==
  /\ \A i \in DOMAIN log.allocs : log.allocs[i].unrooted = {}
  /\ stack # <<>> => compilers[1].fn \in pinned

\* A finished compilation that allocated a string after a nested function.
C11_Witness ==
  /\ stack = <<>>
  /\ result # <<>>
  /\ \E i, j \in DOMAIN log.allocs :
       /\ j < i
       /\ log.allocs[j].obj > log.start.heap + 1
       /\ heap[log.allocs[j].obj].type = "fn"
       /\ heap[log.allocs[i].obj].type = "string"

\* The names of a symbol table.
NamesOf(table) == { table[k] : k \in DOMAIN table }

\* The index a symbol table gives a name it holds.
SlotOf(table, name) == CHOOSE k \in 0..(Len(table) - 1) : table[k + 1] = name

\* C12: a NAME is looked up in the locals of its own frame and then in the
\* globals, never in the locals of an enclosing frame: a local gives
\* LOAD_LOCAL or STORE_LOCAL with its slot, also when a global has the name;
\* otherwise a global gives LOAD_GLOBAL or STORE_GLOBAL with its index;
\* otherwise "Undefined variable." is reported and compile returns NULL.
C12_NameResolution ==
  \A i \in DOMAIN log.names :
    LET n    == log.names[i]
        code == heap[n.fn].bytecode
    IN  /\ (n.at # -1 /\ n.name \in NamesOf(n.locals)) =>
             /\ code[n.at + 1] = Op(IF n.store THEN "CODE_STORE_LOCAL" ELSE "CODE_LOAD_LOCAL")
             /\ code[n.at + 2] = Byte(SlotOf(n.locals, n.name))
        /\ (n.at # -1 /\ n.name \notin NamesOf(n.locals) /\ n.name \in NamesOf(n.globals)) =>
             /\ code[n.at + 1] = Op(IF n.store THEN "CODE_STORE_GLOBAL" ELSE "CODE_LOAD_GLOBAL")
             /\ code[n.at + 2] = Byte(SlotOf(n.globals, n.name))
        /\ n.name \notin NamesOf(n.locals) \cup NamesOf(n.globals) =>
             /\ Len(stderr) > n.errors
             /\ stderr[n.errors + 1].lexeme = n.name
             /\ stderr[n.errors + 1].message = "Undefined variable."
             /\ parser.hasError = 1
             /\ (stack = <<>> /\ result # <<>>) => result[Len(result)].value = 0

\* A finished compilation in which a local hid a global of its name in a
\* load and in a store, and a nested function named a local of the function
\* around it.
C12_Witness ==
  /\ stack = <<>>
  /\ result # <<>>
  /\ \E i, j, k \in DOMAIN log.names :
       /\ log.names[i].name \in NamesOf(log.names[i].locals) \cap NamesOf(log.names[i].globals)
       /\ ~log.names[i].store
       /\ log.names[j].name \in NamesOf(log.names[j].locals) \cap NamesOf(log.names[j].globals)
       /\ log.names[j].store /\ log.names[j].at # -1
       /\ log.names[k].name \in log.names[k].outer
       /\ log.names[k].name \notin NamesOf(log.names[k].locals) \cup NamesOf(log.names[k].globals)

\* C13: `this` is accepted exactly when the frame it is in or a frame above
\* it is a method's, and then LOAD_LOCAL 0 is emitted into the frame it is
\* in; otherwise "Cannot use 'this' outside of a method." is reported,
\* hasError is set and no function's bytecode changes.
C13_ThisInsideMethod ==
  \A i \in DOMAIN log.this :
    LET t == log.this[i]
    IN  IF \E k \in DOMAIN t.chain : t.chain[k] # 0
        THEN /\ t.after.errors = t.before.errors
             /\ t.after.code = [t.before.code EXCEPT ![t.fn].bytecode =
                                  @ \o << Op("CODE_LOAD_LOCAL"), Byte(0) >>]
        ELSE /\ t.after.errors = t.before.errors + 1
             /\ stderr[t.after.errors].message = "Cannot use 'this' outside of a method."
             /\ t.after.hasError = 1
             /\ t.after.code = t.before.code

\* `this` compiled in a function outside of any method, and in a function
\* inside a method.
C13_Witness ==
  \E i, j \in DOMAIN log.this :
    /\ Len(log.this[i].chain) = 2
    /\ \A k \in DOMAIN log.this[i].chain : log.this[i].chain[k] = 0
    /\ Len(log.this[j].chain) = 3
    /\ log.this[j].chain[1] = 0
    /\ log.this[j].chain[2] # 0

\* The declarations that gave a function a local, in the order they ran.
LocalsDeclared(fn) ==
  LET Kept(d) == d.fn = fn /\ d.local /\ d.symbol # -1
  IN  SelectSeq(log.locals, Kept)

\* C14: in every function and method frame slot 0 holds "(this)" before
\* anything is declared, the i-th parameter gets slot i and the locals of the
\* body the slots after them in the order declared; the function of
\* `fn(x,y) x + y` is LOAD_LOCAL 1, LOAD_LOCAL 2, CALL_1 sym("+ "), END.
C14_ReceiverParametersLocals ==
  /\ \A c \in DOMAIN compilers :
       compilers[c].parent # 0 =>
         compilers[c].locals =
           << <<"(", "t", "h", "i", "s", ")">> >> \o
           [k \in DOMAIN LocalsDeclared(compilers[c].fn) |-> LocalsDeclared(compilers[c].fn)[k].name]
  /\ \A fn \in DOMAIN heap :
       \A k \in DOMAIN LocalsDeclared(fn) :
         /\ LocalsDeclared(fn)[k].symbol = k
         /\ LocalsDeclared(fn)[k].parameter => \A j \in 1..(k - 1) : LocalsDeclared(fn)[j].parameter
  /\ (source = SourceFnExpr /\ stack = <<>> /\ result # <<>>) =>
       heap[heap[result[1].built].constants[1].ref].bytecode =
         << Op("CODE_LOAD_LOCAL"), Byte(1), Op("CODE_LOAD_LOCAL"), Byte(2),
            CODE_CALL(1), Byte(findSymbol(vm.methods, <<"+", " ">>)), Op("CODE_END") >>

\* A finished compilation of a function with two parameters and two
\* variables declared in its body.
C14_Witness ==
  /\ stack = <<>>
  /\ result # <<>>
  /\ \E fn \in DOMAIN heap :
       /\ Len(LocalsDeclared(fn)) = 4
       /\ LocalsDeclared(fn)[2].parameter
       /\ ~LocalsDeclared(fn)[3].parameter

\* How tightly a binary operator binds: equality, comparison, term with %,
\* factor.
BindingLevel(op) ==
  CASE BinaryOperators[op] \in { <<"=", "=">>, <<"!", "=">> }                 -> 1
    [] BinaryOperators[op] \in { <<"<">>, <<">">>, <<"<", "=">>, <<">", "=">> } -> 2
    [] BinaryOperators[op] \in { <<"+">>, <<"-">>, <<"%">> }                    -> 3
    [] BinaryOperators[op] \in { <<"*">>, <<"/">> }                            -> 4

\* The root of the parse tree of operands lo .. hi: the last of the operators
\* between them that bind least (operator k stands between operands k and k + 1).
ChainRoot(ops, lo, hi) ==
  CHOOSE k \in lo..(hi - 1) :
    /\ \A j \in lo..(hi - 1) : BindingLevel(ops[k]) <= BindingLevel(ops[j])
    /\ \A j \in (k + 1)..(hi - 1) : BindingLevel(ops[k]) < BindingLevel(ops[j])

\* The bytecode of operands lo .. hi in the postfix order of that tree:
\* operand i loads constant i - 1, an operator calls its method with one
\* argument.
RECURSIVE ChainPostfix(_, _, _, _)
ChainPostfix(methods, ops, lo, hi) ==
  IF lo = hi THEN << Op("CODE_CONSTANT"), Byte(lo - 1) >>
  ELSE ChainPostfix(methods, ops, lo, ChainRoot(ops, lo, hi))
       \o ChainPostfix(methods, ops, ChainRoot(ops, lo, hi) + 1, hi)
       \o << CODE_CALL(1),
              Byte(findSymbol(methods, BinaryOperators[ops[ChainRoot(ops, lo, hi)]] \o <<" ">>)) >>

RECURSIVE SeparatedByPop(_)
SeparatedByPop(n) ==
  IF n = 1 THEN << Op("CODE_CONSTANT"), Byte(0) >>
  ELSE SeparatedByPop(n - 1) \o << Op("CODE_POP"), Op("CODE_CONSTANT"), Byte(n - 1) >>

\* The function a body of the kind is compiled into: the top-level function
\* for the source and a block, else the function that is its first constant.
BodyFunction(kind) ==
  IF kind \in {"top", "block"} THEN result[1].built
  ELSE heap[result[1].built].constants[1].ref

\* C16: a body of n >= 1 definitions with newlines between them has exactly
\* n - 1 POPs, one between each two definitions and none after the last,
\* however many newlines stand between them and before the closing brace or
\* the end of the source; two definitions on a line are a reported error.
C16_PopBetweenDefinitions ==
  (stack = <<>> /\ result # <<>>) =>
    \A b \in BodyShapes :
      source = BodySource(b[1], b[2], b[3], b[4]) =>
        IF b[2] = 1 \/ b[3] > 0
        THEN /\ result[1].value # 0
             /\ heap[BodyFunction(b[1])].bytecode = SeparatedByPop(b[2]) \o << Op("CODE_END") >>
        ELSE /\ result[1].value = 0
             /\ result[1].diagnostics > 0

\* A compiled method body of the most definitions with the most newlines
\* between them and before its closing brace.
C16_Witness ==
  /\ stack = <<>>
  /\ result # <<>>
  /\ source = BodySource("method", MaxDefinitions, MaxNewlines, MaxNewlines)

\* The parameters a function was compiled with.
NumParams(fn) ==
  Cardinality({ k \in DOMAIN LocalsDeclared(fn) : LocalsDeclared(fn)[k].parameter })

\* The heights of the operand stack before the instruction at offset at of
\* a function that is entered with its receiver and its arguments on the stack.
HeightsAt(fn, at) ==
  StackHeights(heap[fn].bytecode, 0,
               [i \in 0..(Len(heap[fn].bytecode) + 256) |-> IF i = 0 THEN {1 + NumParams(fn)} ELSE {}])[at]

\* C17, as stated: wherever a local is defined, on every path to its
\* definition the value of the initializer, the top of the stack, is at the
\* stack position that is the variable's slot.
C17_LocalValueAtSlot ==
  (stack = <<>> /\ result # <<>> /\ result[1].value # 0) =>
    \A i \in DOMAIN log.defined :
      \A h \in HeightsAt(log.defined[i].fn, log.defined[i].at) :
        h - 1 = log.defined[i].symbol

\* C19: parsePrecedence never calls a NULL infix function: every call of it
\* has a precedence of PREC_LOWEST or more, and every token type whose rule
\* has a precedence above PREC_NONE has an infix function, so the loop is
\* entered for `.`, `is` and the binary operators only.
C19_InfixNeverNull ==
  /\ \A i \in DOMAIN stack :
       /\ stack[i].pc # NULL
       /\ stack[i].pc \in {"parsePrecedence", "parsePrecedence_infix"} => stack[i].precedence >= PREC_LOWEST
  /\ \A type \in TokenType : rules(type).precedence > PREC_NONE => rules(type).infix # NULL
  /\ log.infix \subseteq { "TOKEN_DOT", "TOKEN_IS", "TOKEN_STAR", "TOKEN_SLASH", "TOKEN_PERCENT",
                           "TOKEN_PLUS", "TOKEN_MINUS", "TOKEN_LT", "TOKEN_GT", "TOKEN_LTEQ",
                           "TOKEN_GTEQ", "TOKEN_EQEQ", "TOKEN_BANGEQ" }
  /\ \A type \in log.infix : rules(type).infix # NULL

\* A compilation that called an infix function and whose loop then stopped
\* at a token whose rule has none.
C19_Witness ==
  /\ log.infix # {}
  /\ \E type \in log.tested : rules(type).infix = NULL

\* C18: for every source whose string literals are all closed, compile
\* returns: no loop of the lexer or the parser goes on for ever, also after
\* errors, at the end of the source in any place, and inside a block comment
\* that is not closed.
C18_CompileTerminates ==
  <>(stack = <<>> /\ result # <<>>)

\* compile has returned for a source that ends inside a block comment, after
\* it reported an error.
C18_Witness ==
  /\ stack = <<>>
  /\ result # <<>>
  /\ result[1].diagnostics > 0
  /\ source \in UnterminatedPrograms
  /\ parser.current.type = "TOKEN_EOF"

====
